---- MODULE Spec2Model ----
(***************************************************************************)
(* A model of the secure-transport core of matter-rs:                      *)
(*   - the session table and its 16-bit session-id allocator               *)
(*     (src/src/transport/session.rs),                                     *)
(*   - the exchange manager with session eviction and purge                *)
(*     (src/matter/src/transport/exchange.rs),                             *)
(*   - the certificate chain verifier (src/matter/src/cert/mod.rs),        *)
(*   - the PASE handshake handlers (src/src/secure_channel/pake.rs).       *)
(* Each subsystem has its own specification (SpecSess, SpecExch, SpecCert) *)
(* over its own variables; the variables of the other subsystems stay at   *)
(* their initial value.                                                    *)
(***************************************************************************)
EXTENDS Integers, Sequences, FiniteSets, TLC

VARIABLES
    \* SessionMgr of src/src/transport/session.rs
    next_sess_id,   \* SessionMgr.next_sess_id : u16
    sessions,       \* SessionMgr.sessions : Vec<Session, 16>
    cloned,         \* the Session value returned by Session::clone, held by the caller
    panicked,       \* TRUE once an arithmetic overflow check has aborted the program
    sm_last,        \* history: the last SessionMgr/Session operation and its result
    \* ExchangeMgr of src/matter/src/transport/exchange.rs
    exchanges,      \* ExchangeMgr.exchanges : LinearMap<u16, Exchange, MAX_EXCHANGES>
    sess_tbl,       \* ExchangeMgr.sess_mgr : the session table, least recently used first
    quiet,          \* history: no session was touched after its insertion or evicted directly
    inserted,       \* history: while quiet, the sessions inserted so far, in order
    n_evicted,      \* history: while quiet, the number of evictions for lack of space
    ex_last,        \* history: the last ExchangeMgr operation and its result
    \* CertVerifier of src/matter/src/cert/mod.rs
    verifier,       \* CertVerifier.cert, NoVerifier once the verifier is consumed
    n_certs,        \* history: the add_cert steps that succeeded on this chain
    cert_last,      \* history: the last CertVerifier operation and its result
    \* PAKE of src/src/secure_channel/pake.rs
    pase_data,      \* per exchange: the exchange data parked on it
    pase_done,      \* history: the exchanges on which a PBKDFParamRequest succeeded
    pase_last,      \* history: the last PASE handler call and its result
    pake2s,         \* history, per exchange: the PASEPake2 responses written since
                    \* the exchange was opened or a PBKDFParamRequest succeeded on it
    \* ASN1Writer of src/matter/src/cert/asn1_writer.rs
    asn_w,          \* the writer: buf, offset, depth, current_depth
    asn_w2,         \* a second writer that is fed the same calls (a second run)
    asn_last,       \* history: the last CertConsumer call, its result on each writer
    \* message counters received (specification, section 4.6)
    rx_win,         \* per session of the table: the counters in its recent window
    rx_last,        \* history: the last counted message, whether it was a duplicate
    \* users of the exchanges (Exchange::acquire / release)
    life,           \* history, per exchange id: acquires and releases since its creation
    \* decode_cert of src/matter/src/cert/mod.rs
    dec,            \* the TLV struct given to decode_cert, its result and its output
    \* CryptoOpenSSL of src/src/secure_channel/crypto_openssl.rs
    crypto,         \* the instance: xy, w0, w1, M, N
    cr_last         \* history: the last CryptoOpenSSL call, its inputs and its result

sessVars == <<next_sess_id, sessions, cloned, panicked, sm_last>>
exchVars == <<exchanges, sess_tbl, quiet, inserted, n_evicted, ex_last>>

certVars == <<verifier, n_certs, cert_last>>

paseVars == <<pase_data, pase_done, pase_last, pake2s>>
\* the variables of the subsystems other than sessions, exchanges and certificates
asnVars == <<asn_w, asn_w2, asn_last>>
rxVars == <<rx_win, rx_last>>
lifeVars == <<life>>
decVars == <<dec>>
cryptoVars == <<crypto, cr_last>>
auxVars == <<paseVars, asnVars, rxVars, lifeVars, decVars, cryptoVars>>

vars == <<next_sess_id, sessions, cloned, panicked, sm_last,
          exchanges, sess_tbl, quiet, inserted, n_evicted, ex_last,
          verifier, n_certs, cert_last,
          pase_data, pase_done, pase_last, pake2s,
          asn_w, asn_w2, asn_last,
          rx_win, rx_last,
          life, dec, crypto, cr_last>>

----------------------------------------------------------------------------
(* Bounds of the model *)

\* capacity of SessionMgr.sessions (16 in session.rs:264), scaled down
MaxSessions == 2
\* the allocator is exercised for ids 1..MaxIds and around the 16-bit wrap
MaxIds == 3
\* a session's counter is exercised for 1..MaxSends and around the 32-bit wrap
MaxSends == 2

(* Program constants *)

\* u16::MAX, the largest session id
U16Max == 65535

(* A u32 message counter is the pair <<high half, low half>> of its two 16-bit *)
(* halves, value high * 65536 + low: TLC integers are 32-bit signed.           *)
U32(n) == <<0, n>>
U32Max == <<U16Max, U16Max>>
U32MaxLess1 == <<U16Max, U16Max - 1>>
\* "no counter returned yet", below every counter
NoCtr == <<-1, 0>>
u32_lt(a, b) == a[1] < b[1] \/ (a[1] = b[1] /\ a[2] < b[2])
\* c + 1 modulo 2^32
u32_wrapping_incr(c) ==
    IF c[2] < U16Max THEN <<c[1], c[2] + 1>>
    ELSE IF c[1] < U16Max THEN <<c[1] + 1, 0>>
    ELSE <<0, 0>>

\* peer addresses, and the session id a peer chose
Peers == {"peerA", "peerB"}
PeerSessIds == {100}
NoSession == [none |-> TRUE]

----------------------------------------------------------------------------
(* Session (session.rs:24-53).  The keys and the attestation challenge are  *)
(* byte arrays that no operation below reads; they are left out.  hi is a   *)
(* history field: the largest counter get_msg_ctr has returned, or NoCtr.    *)

Session_new(child_local_sess_id, peer_addr) ==
    [peer_addr |-> peer_addr,
     child_local_sess_id |-> child_local_sess_id,
     peer_sess_id |-> 0,
     local_sess_id |-> 0,
     msg_ctr |-> U32(1),
     mode |-> "PlainText",
     hi |-> NoCtr]

\* Session::clone: the new encrypted session; self.child_local_sess_id is
\* zeroed by the caller of this operator (the Clone action)
Session_clone(self, peer_sess_id) ==
    [peer_addr |-> self.peer_addr,
     local_sess_id |-> self.child_local_sess_id,
     peer_sess_id |-> peer_sess_id,
     child_local_sess_id |-> 0,
     msg_ctr |-> U32(1),
     mode |-> "Encrypted",
     hi |-> NoCtr]

\* Session::activate
Session_activate(self, peer_sess_id) ==
    [self EXCEPT !.local_sess_id = self.child_local_sess_id,
                 !.peer_sess_id = peer_sess_id,
                 !.mode = "Encrypted"]

\* the closure of get_next_sess_id's position(): some session holds id
id_in_use(ss, id) ==
    \E i \in 1..Len(ss) :
        ss[i].local_sess_id = id \/ ss[i].child_local_sess_id = id

\* mutant: the increment wraps to 0
incr_sess_id_keep_zero(n) == (n + 1) % (U16Max + 1)

\* the increment of next_sess_id: overflowing_add(1), and 0 replaced by 1
incr_sess_id(n) ==
    LET m == (n + 1) % (U16Max + 1) IN IF m = 0 THEN 1 ELSE m

\* SessionMgr::get_next_sess_id: the loop, from allocator value n over table ss.
\* The result is the id returned and the allocator value left behind.
RECURSIVE get_next_sess_id(_, _)
\* mutant: the uniqueness check looks at local_sess_id only
get_next_sess_id_local_only(n, ss) ==
    IF \A i \in 1..Len(ss) : ss[i].local_sess_id # n
    THEN [id |-> n, next |-> incr_sess_id(n)]
    ELSE get_next_sess_id(incr_sess_id(n), ss)

get_next_sess_id(n, ss) ==
    IF ~id_in_use(ss, n)
    THEN [id |-> n, next |-> incr_sess_id(n)]
    ELSE get_next_sess_id(incr_sess_id(n), ss)

\* Vec::position: the first index satisfying the lookup of SessionMgr::_get, 0 for None
SessionMgr_get(ss, sess_id, peer_addr, is_encrypted) ==
    LET mode == IF is_encrypted THEN "Encrypted" ELSE "PlainText"
        hits == {i \in 1..Len(ss) : /\ ss[i].local_sess_id = sess_id
                                    /\ ss[i].peer_addr = peer_addr
                                    /\ ss[i].mode = mode}
    IN IF hits = {} THEN 0 ELSE CHOOSE i \in hits : \A j \in hits : i <= j

\* SessionMgr::add: the allocation, the push and the lookup of the new session
SessionMgr_add(n, ss, peer_addr) ==
    LET a == get_next_sess_id(n, ss)
        session == Session_new(a.id, peer_addr)
    IN IF Len(ss) >= MaxSessions
       THEN [res |-> "NoSpace", id |-> a.id, next |-> a.next, sessions |-> ss, idx |-> 0]
       ELSE LET ss2 == Append(ss, session)
                index == SessionMgr_get(ss2, 0, peer_addr, FALSE)
            IN [res |-> IF index = 0 THEN "NoSpace" ELSE "Ok",
                id |-> a.id, next |-> a.next, sessions |-> ss2, idx |-> index]

\* the exchange manager before any operation (ExchangeMgr::new)
ExchIdle ==
    /\ exchanges = <<>>
    /\ sess_tbl = <<>>
    /\ quiet = TRUE
    /\ inserted = <<>>
    /\ n_evicted = 0
    /\ ex_last = [op |-> "new"]

\* no chain verification is under way
NoVerifier == [none |-> TRUE]
CertIdle ==
    /\ verifier = NoVerifier
    /\ n_certs = 0
    /\ cert_last = [op |-> "new"]

\* the exchanges a PASE handshake is driven on
MaxPaseExch == 2
PaseExchIds == 1..MaxPaseExch

\* no exchange is open, no PASE message was handled
PaseIdle ==
    /\ pase_data = [e \in PaseExchIds |-> "absent"]
    /\ pase_done = {}
    /\ pase_last = [op |-> "new"]
    /\ pake2s = [e \in PaseExchIds |-> 0]

\* size of the caller's buffer the writers are given
AsnBufLen == 16
\* MAX_DEPTH, the size of the depth stack (10 in cert/mod.rs:571), scaled down
MaxDepth == 3
\* the number of CertConsumer calls of a script
MaxCalls == 3

\* ASN1Writer::new on a buffer whose bytes all hold fill
ASN1Writer_new(fill) ==
    [buf |-> [i \in 1..AsnBufLen |-> fill],
     offset |-> 0,
     depth |-> [i \in 1..MaxDepth |-> 0],
     current_depth |-> 0]

\* both writers are new, on zeroed buffers
AsnIdle ==
    /\ asn_w = ASN1Writer_new(0)
    /\ asn_w2 = ASN1Writer_new(0)
    /\ asn_last = [op |-> "new", res |-> "Ok", res2 |-> "Ok", n |-> 0, same_buf |-> TRUE,
                   starts |-> 0, ends |-> 0, opened |-> <<>>]

\* no counted message was received
RxIdle ==
    /\ rx_win = {}
    /\ rx_last = [dup |-> FALSE, exch_id |-> 0, sess_id |-> 0]

\* no exchange was acquired or released
LifeIdle == life = [id \in {} |-> 0]

\* decode_cert was not called
DecIdle == dec = [tlv |-> <<>>, res |-> "none", out |-> <<>>]

\* the order of the group that stands for the curve, and the multiples of
\* the generator that stand for MATTER_M_BIN and MATTER_N_BIN
EcOrder == 7

MatterM == 3

MatterN == 5

\* CryptoOpenSSL::new
CryptoOpenSSL_new == [xy |-> 0, w0 |-> 0, w1 |-> 0, M |-> MatterM, N |-> MatterN]

CryptoIdle ==
    /\ crypto = CryptoOpenSSL_new
    /\ cr_last = [op |-> "new"]

AuxIdle == PaseIdle /\ AsnIdle /\ RxIdle /\ LifeIdle /\ DecIdle /\ CryptoIdle

----------------------------------------------------------------------------
(* Actions of the session manager *)

(* sm_last records the operation, its result, the session id it allocated or *)
(* looked up (0 if none) and the index it returned (0 if none);               *)
(* for get_msg_ctr, ctr is the counter returned and prev the largest counter  *)
(* the session had returned before.                                           *)
Last(op, res, id, idx) ==
    [op |-> op, res |-> res, id |-> id, idx |-> idx]

LastCtr(res, ctr, idx, prev) ==
    [op |-> "get_msg_ctr", res |-> res, ctr |-> ctr, idx |-> idx, prev |-> prev]

\* the allocator is driven while it is in the window the bounds name
AllocInWindow == next_sess_id <= MaxIds \/ next_sess_id >= U16Max - 1

GetNextSessId ==
    /\ ~panicked
    /\ AllocInWindow
    /\ LET a == get_next_sess_id(next_sess_id, sessions) IN
        /\ next_sess_id' = a.next
        /\ sm_last' = Last("get_next_sess_id", "Ok", a.id, 0)
    /\ UNCHANGED <<sessions, cloned, panicked, exchVars, certVars, auxVars>>

Add(peer_addr) ==
    /\ ~panicked
    /\ AllocInWindow
    /\ LET r == SessionMgr_add(next_sess_id, sessions, peer_addr) IN
        /\ next_sess_id' = r.next
        /\ sessions' = r.sessions
        /\ sm_last' = Last("add", r.res, r.id, r.idx)
    /\ UNCHANGED <<cloned, panicked, exchVars, certVars, auxVars>>

\* mutant: a session is created for every lookup that matches none
Get_create_unmatched(sess_id, peer_addr, is_encrypted) ==
    /\ ~panicked
    /\ AllocInWindow
    /\ LET index == SessionMgr_get(sessions, sess_id, peer_addr, is_encrypted) IN
        IF index # 0
        THEN /\ sm_last' = Last("get", "Some", sess_id, index)
             /\ UNCHANGED <<next_sess_id, sessions>>
        ELSE LET r == SessionMgr_add(next_sess_id, sessions, peer_addr) IN
             /\ next_sess_id' = r.next
             /\ sessions' = r.sessions
             /\ sm_last' = Last("get", IF r.res = "Ok" THEN "Created" ELSE "None",
                                r.id, r.idx)
    /\ UNCHANGED <<cloned, panicked, exchVars, certVars, auxVars>>

\* SessionMgr::get
Get(sess_id, peer_addr, is_encrypted) ==
    /\ ~panicked
    /\ AllocInWindow
    /\ LET index == SessionMgr_get(sessions, sess_id, peer_addr, is_encrypted) IN
        IF index # 0
        THEN /\ sm_last' = Last("get", "Some", sess_id, index)
             /\ UNCHANGED <<next_sess_id, sessions>>
        ELSE IF sess_id = 0 /\ ~is_encrypted
        THEN LET r == SessionMgr_add(next_sess_id, sessions, peer_addr) IN
             /\ next_sess_id' = r.next
             /\ sessions' = r.sessions
             /\ sm_last' = Last("get", IF r.res = "Ok" THEN "Created" ELSE "None",
                                r.id, r.idx)
        ELSE /\ sm_last' = Last("get", "None", sess_id, 0)
             /\ UNCHANGED <<next_sess_id, sessions>>
    /\ UNCHANGED <<cloned, panicked, exchVars, certVars, auxVars>>

\* Session::clone on sessions[i]
Clone(i, peer_sess_id) ==
    /\ ~panicked
    /\ cloned = NoSession
    /\ cloned' = Session_clone(sessions[i], peer_sess_id)
    /\ sessions' = [sessions EXCEPT ![i].child_local_sess_id = 0]
    /\ sm_last' = Last("clone", "Ok", sessions[i].child_local_sess_id, i)
    /\ UNCHANGED <<next_sess_id, panicked, exchVars, certVars, auxVars>>

\* SessionMgr::add_session with the session Session::clone returned
AddSession ==
    /\ ~panicked
    /\ cloned # NoSession
    /\ IF Len(sessions) >= MaxSessions
       THEN /\ sm_last' = Last("add_session", "NoSpace", cloned.local_sess_id, 0)
            /\ UNCHANGED sessions
       ELSE /\ sessions' = Append(sessions, cloned)
            /\ sm_last' = Last("add_session", "Ok", cloned.local_sess_id,
                               Len(sessions) + 1)
    /\ cloned' = NoSession
    /\ UNCHANGED <<next_sess_id, panicked, exchVars, certVars, auxVars>>

\* Session::activate on sessions[i]
Activate(i, peer_sess_id) ==
    /\ ~panicked
    /\ sessions[i].mode = "PlainText"
    /\ sessions' = [sessions EXCEPT ![i] = Session_activate(sessions[i], peer_sess_id)]
    /\ sm_last' = Last("activate", "Ok", sessions[i].child_local_sess_id, i)
    /\ UNCHANGED <<next_sess_id, cloned, panicked, exchVars, certVars, auxVars>>

\* Session::get_msg_ctr on sessions[i].  `self.msg_ctr += 1` on u32::MAX
\* aborts in a build with overflow checks and wraps to 0 in one without.
get_msg_ctr(self) ==
    [ctr |-> self.msg_ctr, msg_ctr |-> u32_wrapping_incr(self.msg_ctr)]

GetMsgCtr(i) ==
    /\ ~panicked
    /\ \/ sessions[i].msg_ctr[1] = 0 /\ sessions[i].msg_ctr[2] <= MaxSends
       \/ sessions[i].msg_ctr \in {U32MaxLess1, U32Max}
    /\ LET r == get_msg_ctr(sessions[i]) IN
        \/ /\ sessions' = [sessions EXCEPT ![i].msg_ctr = r.msg_ctr,
                                           ![i].hi = IF u32_lt(@, r.ctr) THEN r.ctr ELSE @]
           /\ sm_last' = LastCtr("Ok", r.ctr, i, sessions[i].hi)
           /\ UNCHANGED panicked
        \/ /\ sessions[i].msg_ctr = U32Max
           /\ panicked' = TRUE
           /\ sm_last' = LastCtr("panic", NoCtr, i, sessions[i].hi)
           /\ UNCHANGED sessions
    /\ UNCHANGED <<next_sess_id, cloned, exchVars, certVars, auxVars>>

SessIdInputs == {0, 1, 2, U16Max}

NextSess ==
    \/ GetNextSessId
    \/ \E p \in Peers : Add(p)
    \/ \E id \in SessIdInputs, p \in Peers, e \in BOOLEAN : Get(id, p, e)
    \/ \E i \in 1..Len(sessions), ps \in PeerSessIds : Clone(i, ps)
    \/ AddSession
    \/ \E i \in 1..Len(sessions), ps \in PeerSessIds : Activate(i, ps)

(* get_msg_ctr reads and writes msg_ctr alone, which no other operation reads *)
(* and which only the creation of a session sets: the counters are checked    *)
(* under the operations that create sessions and the one that draws counters. *)
NextCtr ==
    \/ \E p \in Peers : Add(p)
    \/ \E i \in 1..Len(sessions), ps \in PeerSessIds : Clone(i, ps)
    \/ AddSession
    \/ \E i \in 1..Len(sessions) : GetMsgCtr(i)

(* The session manager starts empty with next_sess_id = 1 (SessionMgr::new).  *)
(* The other initial states are states it reaches after a long run: the       *)
(* allocator just below the 16-bit wrap (65533 allocations later, the state   *)
(* test_next_sess_id_overflows sets up at session.rs:378-381), and a session   *)
(* whose counter is just below the 32-bit wrap.                               *)
OldSession(child, peer, ctr, hi) ==
    [Session_new(child, peer) EXCEPT !.msg_ctr = ctr, !.hi = hi]

\* the session manager before any operation (SessionMgr::new)
SessIdle ==
    /\ next_sess_id = 1
    /\ sessions = <<>>
    /\ cloned = NoSession
    /\ panicked = FALSE
    /\ sm_last = Last("new", "Ok", 0, 0)

InitSess ==
    /\ \/ /\ sessions = <<>>
          /\ next_sess_id \in {1, U16Max - 1}
       \/ /\ \/ sessions = <<OldSession(1, "peerA", U32(1), NoCtr)>>
             \/ sessions = <<OldSession(1, "peerA", U32MaxLess1,
                                        <<U16Max, U16Max - 2>>)>>
          /\ next_sess_id \in {2, U16Max - 1}
    /\ cloned = NoSession
    /\ panicked = FALSE
    /\ sm_last = Last("new", "Ok", 0, 0)
    /\ ExchIdle
    /\ CertIdle
    /\ AuxIdle

SpecSess == InitSess /\ [][NextSess]_vars

SpecCtr == InitSess /\ [][NextCtr]_vars

----------------------------------------------------------------------------
(* Claims about the session manager *)

\* C1: every id the allocator hands out (by get_next_sess_id itself, by add, or
\* by get when it creates a session) differs from the local_sess_id and from the
\* child_local_sess_id of every session that was live when it was handed out
\* (every session of the table but the one add has just pushed with that id).
LiveBefore ==
    IF sm_last.op \in {"add", "get"} /\ sm_last.res \in {"Ok", "Created"}
    THEN 1..(Len(sessions) - 1)
    ELSE 1..Len(sessions)

Allocated ==
    \/ sm_last.op \in {"get_next_sess_id", "add"}
    \/ sm_last.op = "get" /\ sm_last.res = "Created"

C1_FreshSessId ==
    Allocated =>
        \A i \in LiveBefore :
            /\ sessions[i].local_sess_id # sm_last.id
            /\ sessions[i].child_local_sess_id # sm_last.id

\* C1 witness: with the sessions holding ids 1 and 65534 live, the allocator has
\* wrapped, skipped the id 1 that is in use and handed out 2
C1_Witness ==
    /\ sm_last.op = "get_next_sess_id"
    /\ sm_last.id = 2
    /\ \E i, j \in 1..Len(sessions) :
          /\ sessions[i].child_local_sess_id = 1
          /\ sessions[j].child_local_sess_id = U16Max - 1

\* the last operation handed out 65535, and this step hands out the next id
AllocAfterMax ==
    /\ Allocated
    /\ sm_last.id = U16Max
    /\ sm_last'.op \in {"get_next_sess_id", "add"}
          \/ (sm_last'.op = "get" /\ sm_last'.res = "Created")

(* C13 as stated: after the allocator has handed out 65535 it wraps, and the *)
(* next id it returns is 2; 0 is never allocated.                            *)
C13_WrapGivesTwo ==
    [][AllocAfterMax => sm_last'.id = 2]_vars

\* the smallest id from 1 on that no session of ss holds
least_free_id(ss) ==
    CHOOSE n \in 1..(2 * MaxSessions + 1) :
        /\ ~id_in_use(ss, n)
        /\ \A m \in 1..(n - 1) : id_in_use(ss, m)

(* C13 amended: after the allocator has handed out 65535 it wraps, and the   *)
(* next id it returns is the smallest id from 1 on that no live session      *)
(* holds as its local or child id: 1 when no live session holds 1, 2 when a  *)
(* live session holds 1 and none holds 2.  0 is never allocated.             *)
C13_WrapGivesLeastFree ==
    [][/\ AllocAfterMax =>
            /\ sm_last'.id = least_free_id(sessions)
            /\ id_in_use(sessions, 1) /\ ~id_in_use(sessions, 2) => sm_last'.id = 2
            /\ ~id_in_use(sessions, 1) => sm_last'.id = 1
       /\ (\/ sm_last'.op \in {"get_next_sess_id", "add"}
           \/ (sm_last'.op = "get" /\ sm_last'.res = "Created")) =>
            sm_last'.id # 0]_vars

\* a live session holds 65535, the allocator has wrapped and handed out 1
C13_Witness ==
    /\ sm_last.op = "get_next_sess_id"
    /\ sm_last.id = 1
    /\ next_sess_id = 2
    /\ \E i \in 1..Len(sessions) : sessions[i].child_local_sess_id = U16Max

(* C14: in every reachable state of the session table, no two live sessions *)
(* have the same local_sess_id.                                              *)
C14_LocalSessIdUnique ==
    \A i, j \in 1..Len(sessions) :
        sessions[i].local_sess_id = sessions[j].local_sess_id => i = j

\* C6: each counter get_msg_ctr returns for a session is strictly greater than
\* every counter it returned for that session before
C6_CtrStrictlyIncreasing ==
    (sm_last.op = "get_msg_ctr" /\ sm_last.res = "Ok") =>
        u32_lt(sm_last.prev, sm_last.ctr)

----------------------------------------------------------------------------
(* The exchange manager (src/matter/src/transport/exchange.rs).             *)
(*                                                                          *)
(* exchange.rs is written against a later SessionMgr than the one of        *)
(* src/src/transport/session.rs: recv, clone_session, get_lru, mut_by_index,*)
(* remove and get_with_id, and the MRP state ReliableMessage, are not among *)
(* the sources.  They are modelled from the specification (sections 3, 4.6  *)
(* and 4.7) and named sess_mgr_* and mrp_* below.                           *)

\* capacity of the session table (MAX_SESSIONS, 16 recommended), scaled down
MaxSess == 2
\* capacity of ExchangeMgr.exchanges (MAX_EXCHANGES, 8 in exchange.rs:166), scaled down
MaxExchanges == 2
\* acquire() is exercised up to this user count
MaxUsers == 1
\* capacity of the map pending_acks fills (MAX_MRP_ENTRIES, 4 in exchange.rs:175),
\* scaled down with MaxExchanges
MaxMrpEntries == 1

\* u8::MAX, what a user count of 0 wraps to
U8Max == 255

ExchIds == 1..(MaxExchanges + 1)
\* the local session ids key exchange hands to clone_session
LocalIds == 1..MaxSess
Roles == {"Initiator", "Responder"}

get_role(is_initiator) == IF is_initiator THEN "Initiator" ELSE "Responder"

\* mutant: the role of the peer instead of its complement
get_same_role(is_initiator) == get_role(is_initiator)

get_complementary_role(is_initiator) ==
    IF is_initiator THEN "Responder" ELSE "Initiator"

(* MRP state of an exchange (specification, section 3): a retransmit slot and *)
(* an ack-pending flag.                                                       *)
mrp_new == [ack_pending |-> FALSE, retrans |-> FALSE]
mrp_is_empty(m) == ~m.ack_pending /\ ~m.retrans
\* an acknowledgement is owed to the peer
mrp_is_ack_ready(m) == m.ack_pending
\* on receive: an ack clears the retransmit slot, a reliable message wants an ack
mrp_recv(m, pkt) ==
    [ack_pending |-> m.ack_pending \/ pkt.reliable,
     retrans |-> m.retrans /\ ~pkt.ack]
\* on send: the pending ack is piggybacked, a reliable message takes the slot;
\* at most one retransmit is outstanding per exchange
mrp_pre_send_ok(m, reliable) == ~(reliable /\ m.retrans)
mrp_pre_send(m, reliable) ==
    [ack_pending |-> FALSE, retrans |-> m.retrans \/ reliable]

(* Exchange.  owner is a history field: the peer of the session on which the *)
(* message that created the exchange was received, "none" for an exchange    *)
(* created through ExchangeMgr::get.  The exchange data holder is left out.  *)
Exchange_new(id, sess_id, role) ==
    [id |-> id, sess_id |-> sess_id, role |-> role, user_cnt |-> 1,
     mrp |-> mrp_new, owner |-> "none"]

\* mutant: purgeable when there are no users or nothing is pending
is_purgeable_or(e) == e.user_cnt = 0 \/ mrp_is_empty(e.mrp)

is_purgeable(e) == e.user_cnt = 0 /\ mrp_is_empty(e.mrp)

(* LinearMap<u16, Exchange, MAX_EXCHANGES>: a buffer of entries in insertion *)
(* order; remove() is a swap_remove.                                         *)
key_index(exs, id) ==
    IF \E i \in 1..Len(exs) : exs[i].id = id
    THEN CHOOSE i \in 1..Len(exs) : exs[i].id = id
    ELSE 0
contains_key(exs, id) == key_index(exs, id) # 0
map_get(exs, id) == exs[key_index(exs, id)]
map_keys(exs) == {exs[i].id : i \in 1..Len(exs)}
map_full(exs) == Len(exs) >= MaxExchanges
map_remove(exs, id) ==
    LET i == key_index(exs, id) IN
    IF i = 0 THEN exs
    ELSE SubSeq([exs EXCEPT ![i] = exs[Len(exs)]], 1, Len(exs) - 1)
RECURSIVE map_remove_all(_, _)
map_remove_all(exs, ids) ==
    IF ids = <<>> THEN exs
    ELSE map_remove_all(map_remove(exs, Head(ids)), Tail(ids))
\* the keys of the purgeable entries from position i on, in iteration order
RECURSIVE purgeable_keys(_, _)
purgeable_keys(exs, i) ==
    IF i > Len(exs) THEN <<>>
    ELSE IF is_purgeable(exs[i]) THEN <<exs[i].id>> \o purgeable_keys(exs, i + 1)
    ELSE purgeable_keys(exs, i + 1)
\* the keys of the entries bound to session sess_id from position i on
RECURSIVE session_keys(_, _, _)
session_keys(exs, i, sess_id) ==
    IF i > Len(exs) THEN <<>>
    ELSE IF exs[i].sess_id = sess_id
    THEN <<exs[i].id>> \o session_keys(exs, i + 1, sess_id)
    ELSE session_keys(exs, i + 1, sess_id)

\* mutant: a full map drops its oldest entry to make room
ExchangeMgr_get_overwrite(exs, sess_id, id, role, create_new) ==
    IF ~contains_key(exs, id) /\ ~create_new
    THEN [res |-> "NoSpace", exchanges |-> exs]
    ELSE LET exs2 == IF contains_key(exs, id) THEN exs
                     ELSE IF map_full(exs)
                     THEN Append(Tail(exs), Exchange_new(id, sess_id, role))
                     ELSE Append(exs, Exchange_new(id, sess_id, role))
         IN IF map_get(exs2, id).role = role /\ map_get(exs2, id).sess_id = sess_id
            THEN [res |-> "Ok", exchanges |-> exs2]
            ELSE [res |-> "NoExchange", exchanges |-> exs2]

\* ExchangeMgr::_get
ExchangeMgr_get(exs, sess_id, id, role, create_new) ==
    IF ~contains_key(exs, id) /\ ~create_new
    THEN [res |-> "NoSpace", exchanges |-> exs]
    ELSE IF ~contains_key(exs, id) /\ map_full(exs)
    THEN [res |-> "NoSpace", exchanges |-> exs]
    ELSE LET exs2 == IF contains_key(exs, id) THEN exs
                     ELSE Append(exs, Exchange_new(id, sess_id, role))
         IN IF map_get(exs2, id).role = role /\ map_get(exs2, id).sess_id = sess_id
            THEN [res |-> "Ok", exchanges |-> exs2]
            ELSE [res |-> "NoExchange", exchanges |-> exs2]

\* ExchangeMgr::purge
purge(exs) == map_remove_all(exs, purgeable_keys(exs, 1))

\* ExchangeMgr::pending_acks from position i on, into the map entries of
\* capacity MAX_MRP_ENTRIES: insert(..).unwrap() aborts when the map is full
RECURSIVE pending_acks_from(_, _, _)
pending_acks_from(exs, i, entries) ==
    IF i > Len(exs) THEN [res |-> "Ok", entries |-> entries]
    ELSE IF ~mrp_is_ack_ready(exs[i].mrp) THEN pending_acks_from(exs, i + 1, entries)
    ELSE IF Len(entries) >= MaxMrpEntries THEN [res |-> "panic", entries |-> entries]
    ELSE pending_acks_from(exs, i + 1, Append(entries, exs[i].id))

\* ExchangeMgr::pending_acks into an empty map
pending_acks(exs) == pending_acks_from(exs, 1, <<>>)

(* The session table of the exchange manager (specification, sections 3 and  *)
(* 4.7): a fixed-capacity ordered collection, kept here in LRU order, the    *)
(* least recently touched session first.                                     *)
PlainSession(peer_addr) ==
    [local_sess_id |-> 0, peer_addr |-> peer_addr, mode |-> "PlainText"]
EncSession(cd) ==
    [local_sess_id |-> cd.local_sess_id, peer_addr |-> cd.peer_addr,
     mode |-> "Encrypted"]

\* a touch makes the session the most recently used
sess_mgr_touch(tbl, i) ==
    SubSeq(tbl, 1, i - 1) \o SubSeq(tbl, i + 1, Len(tbl)) \o <<tbl[i]>>
sess_mgr_remove(tbl, i) == SubSeq(tbl, 1, i - 1) \o SubSeq(tbl, i + 1, Len(tbl))
\* the index of the session not touched for longest
sess_mgr_get_lru(tbl) == 1
\* the session with this local id, 0 for None
sess_mgr_get_with_id(tbl, sess_id) ==
    IF \E i \in 1..Len(tbl) : tbl[i].local_sess_id = sess_id
    THEN CHOOSE i \in 1..Len(tbl) :
            /\ tbl[i].local_sess_id = sess_id
            /\ \A j \in 1..(i - 1) : tbl[j].local_sess_id # sess_id
    ELSE 0
\* the session a received packet belongs to: the session id selects it, id 0
\* (plaintext) is matched also by peer address; 0 for None
sess_mgr_find(tbl, pkt) ==
    LET hits == {i \in 1..Len(tbl) :
                    /\ tbl[i].local_sess_id = pkt.sess_id
                    /\ pkt.sess_id = 0 => tbl[i].peer_addr = pkt.peer_addr}
    IN IF hits = {} THEN 0 ELSE CHOOSE i \in hits : TRUE
\* SessionMgr::recv: locate the session, or create the plaintext session of an
\* unknown peer on id 0 when there is room
sess_mgr_recv(tbl, pkt) ==
    LET i == sess_mgr_find(tbl, pkt) IN
    IF i # 0
    THEN [res |-> "Ok", tbl |-> sess_mgr_touch(tbl, i), inserted |-> FALSE]
    ELSE IF pkt.sess_id # 0
    THEN [res |-> "NoSession", tbl |-> tbl, inserted |-> FALSE]
    ELSE IF Len(tbl) >= MaxSess
    THEN [res |-> "NoSpace", tbl |-> tbl, inserted |-> FALSE]
    ELSE [res |-> "Ok", tbl |-> Append(tbl, PlainSession(pkt.peer_addr)),
          inserted |-> TRUE]
\* SessionMgr::clone_session: a new encrypted session from the clone data
sess_mgr_clone_session(tbl, cd) ==
    IF Len(tbl) >= MaxSess
    THEN [res |-> "NoSpace", tbl |-> tbl]
    ELSE [res |-> "Ok", tbl |-> Append(tbl, EncSession(cd))]

\* what the environment does to an operation: nothing, no packet buffer left,
\* the session refuses to prepare or to send a packet, the payload does not decrypt
Envs == {"ok", "alloc_fail", "pre_send_fail", "send_fail", "decrypt_fail"}

NoEvict == [res |-> "none", index |-> 0, removed |-> <<>>, close_sent |-> FALSE]

\* Exchange::send on entry i of the map, for session sess: the exchanges after
\* the call and its result
Exchange_send(exs, i, sess, reliable, env) ==
    IF exs[i].sess_id # sess.local_sess_id
    THEN [res |-> "InvalidState", exchanges |-> exs]
    ELSE IF env = "pre_send_fail"
    THEN [res |-> "Invalid", exchanges |-> exs]
    ELSE IF ~mrp_pre_send_ok(exs[i].mrp, reliable)
    THEN [res |-> "Invalid", exchanges |-> exs]
    ELSE [res |-> IF env = "send_fail" THEN "Invalid" ELSE "Ok",
          exchanges |-> [exs EXCEPT ![i].mrp = mrp_pre_send(@, reliable)]]

\* mutant: the session is removed before the CloseSession report is sent
evict_session_remove_first(exs, tbl, index, env) ==
    IF index < 1 \/ index > Len(tbl)
    THEN [NoEvict EXCEPT !.res = "Invalid"] @@ [exchanges |-> exs, tbl |-> tbl]
    ELSE IF env = "alloc_fail"
    THEN [NoEvict EXCEPT !.res = "NoSpace"] @@ [exchanges |-> exs, tbl |-> tbl]
    ELSE
    LET session == tbl[index]
        sess_id == session.local_sess_id
        bound == session_keys(exs, 1, sess_id)
        sent == IF bound = <<>> THEN [res |-> "Ok", exchanges |-> exs]
                ELSE Exchange_send(exs, key_index(exs, Head(bound)), session, TRUE, env)
    IN IF sent.res # "Ok"
       THEN [NoEvict EXCEPT !.res = sent.res]
            @@ [exchanges |-> sent.exchanges, tbl |-> sess_mgr_remove(tbl, index)]
       ELSE [res |-> "Ok", index |-> index,
             removed |-> bound, close_sent |-> bound # <<>>,
             exchanges |-> map_remove_all(sent.exchanges, bound),
             tbl |-> sess_mgr_remove(tbl, index)]

\* mutant: the exchanges are left behind
evict_session_keep_exchanges(exs, tbl, index, env) ==
    IF index < 1 \/ index > Len(tbl) \/ env = "alloc_fail"
    THEN [NoEvict EXCEPT !.res = "Invalid"] @@ [exchanges |-> exs, tbl |-> tbl]
    ELSE [res |-> "Ok", index |-> index,
          removed |-> <<>>, close_sent |-> FALSE,
          exchanges |-> exs, tbl |-> sess_mgr_remove(tbl, index)]

\* ExchangeMgr::evict_session: the CloseSession status report is sent on the
\* first exchange bound to the session, if there is one; then every exchange
\* bound to the session's local id is removed, and the session
evict_session(exs, tbl, index, env) ==
    IF index < 1 \/ index > Len(tbl)
    THEN [NoEvict EXCEPT !.res = "Invalid"] @@ [exchanges |-> exs, tbl |-> tbl]
    ELSE IF env = "alloc_fail"
    THEN [NoEvict EXCEPT !.res = "NoSpace"] @@ [exchanges |-> exs, tbl |-> tbl]
    ELSE
    LET session == tbl[index]
        sess_id == session.local_sess_id
        bound == session_keys(exs, 1, sess_id)
        sent == IF bound = <<>> THEN [res |-> "Ok", exchanges |-> exs]
                ELSE Exchange_send(exs, key_index(exs, Head(bound)), session, TRUE, env)
    IN IF sent.res # "Ok"
       THEN [NoEvict EXCEPT !.res = sent.res]
            @@ [exchanges |-> sent.exchanges, tbl |-> tbl]
       ELSE [res |-> "Ok", index |-> index,
             removed |-> bound, close_sent |-> bound # <<>>,
             exchanges |-> map_remove_all(sent.exchanges, bound),
             tbl |-> sess_mgr_remove(tbl, index)]

\* the result of recv and add_session: the error or Ok, the two tables, what an
\* eviction did, the exchange created (0 if none) and whether a session was
\* inserted
OpResult(res, exs, tbl, ev, created, is_new_sess) ==
    [res |-> res, exchanges |-> exs, tbl |-> tbl, ev |-> ev, created |-> created,
     inserted |-> is_new_sess]

\* the part of recv after the session is resolved: decrypt, _get, mrp.recv.
\* The session of the packet is the last of tbl (just touched or inserted).
recv_exchange(exs, tbl, pkt, env, ev, is_new_sess) ==
    LET session == tbl[Len(tbl)] IN
    IF session.mode = "Encrypted" /\ env = "decrypt_fail"
    THEN OpResult("Invalid", exs, tbl, ev, 0, is_new_sess)
    ELSE
    LET g == ExchangeMgr_get(exs, pkt.sess_id, pkt.exch_id,
                             get_complementary_role(pkt.initiator), pkt.initiator)
        isnew == ~contains_key(exs, pkt.exch_id) /\ contains_key(g.exchanges, pkt.exch_id)
    IN IF g.res # "Ok"
       THEN OpResult(g.res, g.exchanges, tbl, ev, 0, is_new_sess)
       ELSE LET i == key_index(g.exchanges, pkt.exch_id)
                exs2 == [g.exchanges EXCEPT
                            ![i].mrp = mrp_recv(@, pkt),
                            ![i].owner = IF isnew THEN session.peer_addr ELSE @]
            IN OpResult("Ok", exs2, tbl, ev, IF isnew THEN pkt.exch_id ELSE 0,
                        is_new_sess)

\* mutant: any failure of the first attempt leads to an eviction and a retry
ExchangeMgr_recv_evict_on_error(exs, tbl, pkt, env) ==
    LET s == sess_mgr_recv(tbl, pkt) IN
    IF s.res = "Ok"
    THEN recv_exchange(exs, s.tbl, pkt, env, NoEvict, s.inserted)
    ELSE IF tbl = <<>>
    THEN OpResult(s.res, exs, tbl, NoEvict, 0, FALSE)
    ELSE
    LET ev == evict_session(exs, tbl, sess_mgr_get_lru(tbl), env) IN
    IF ev.res # "Ok"
    THEN OpResult(ev.res, ev.exchanges, ev.tbl, ev, 0, FALSE)
    ELSE
    LET s2 == sess_mgr_recv(ev.tbl, pkt) IN
    IF s2.res # "Ok"
    THEN OpResult(s2.res, ev.exchanges, s2.tbl, ev, 0, FALSE)
    ELSE recv_exchange(ev.exchanges, s2.tbl, pkt, env, ev, s2.inserted)

\* ExchangeMgr::recv
ExchangeMgr_recv(exs, tbl, pkt, env) ==
    LET s == sess_mgr_recv(tbl, pkt) IN
    IF s.res = "Ok"
    THEN recv_exchange(exs, s.tbl, pkt, env, NoEvict, s.inserted)
    ELSE IF s.res # "NoSpace"
    THEN OpResult(s.res, exs, tbl, NoEvict, 0, FALSE)
    ELSE
    LET ev == evict_session(exs, tbl, sess_mgr_get_lru(tbl), env) IN
    IF ev.res # "Ok"
    THEN OpResult(ev.res, ev.exchanges, ev.tbl, ev, 0, FALSE)
    ELSE
    LET s2 == sess_mgr_recv(ev.tbl, pkt) IN
    IF s2.res # "Ok"
    THEN OpResult(s2.res, ev.exchanges, s2.tbl, ev, 0, FALSE)
    ELSE recv_exchange(ev.exchanges, s2.tbl, pkt, env, ev, s2.inserted)

\* mutant: the most recently used session is evicted
add_session_evict_mru(exs, tbl, cd, env) ==
    LET c == sess_mgr_clone_session(tbl, cd) IN
    IF c.res = "Ok" THEN OpResult("Ok", exs, c.tbl, NoEvict, 0, TRUE)
    ELSE LET ev == evict_session(exs, tbl, Len(tbl), env)
             c2 == sess_mgr_clone_session(ev.tbl, cd)
         IN IF ev.res # "Ok"
            THEN OpResult(ev.res, ev.exchanges, ev.tbl, ev, 0, FALSE)
            ELSE OpResult(c2.res, ev.exchanges, c2.tbl, ev, 0, c2.res = "Ok")

\* ExchangeMgr::add_session
add_session(exs, tbl, cd, env) ==
    LET c == sess_mgr_clone_session(tbl, cd) IN
    IF c.res = "Ok"
    THEN OpResult("Ok", exs, c.tbl, NoEvict, 0, TRUE)
    ELSE IF c.res # "NoSpace"
    THEN OpResult(c.res, exs, tbl, NoEvict, 0, FALSE)
    ELSE
    LET ev == evict_session(exs, tbl, sess_mgr_get_lru(tbl), env) IN
    IF ev.res # "Ok"
    THEN OpResult(ev.res, ev.exchanges, ev.tbl, ev, 0, FALSE)
    ELSE
    LET c2 == sess_mgr_clone_session(ev.tbl, cd) IN
    OpResult(c2.res, ev.exchanges, c2.tbl, ev, 0, c2.res = "Ok")

----------------------------------------------------------------------------
(* Actions of the exchange manager *)

sessOnly == <<next_sess_id, sessions, cloned, sm_last, verifier, n_certs, cert_last,
              auxVars>>

\* some exchange of exs named in ids has users or something pending
some_busy(exs, ids) ==
    \E k \in 1..Len(ids) : ~is_purgeable(map_get(exs, ids[k]))

(* ex_last records the operation and its result.  For recv, add_session and *)
(* evict_session: whether an exchange was created, and what the eviction did: *)
(* its result ("none" if no eviction was tried), the number of exchanges      *)
(* removed, and whether one of them had users or something pending.           *)
ExLast(op, r) ==
    [op |-> op, res |-> r.res, created |-> r.created # 0, ev |-> r.ev.res,
     n_removed |-> Len(r.ev.removed),
     busy_removed |-> some_busy(exchanges, r.ev.removed)]
\* the record of an operation on one exchange
ExLastX(op, res) == [op |-> op, res |-> res]

(* The history of insertions.  It is kept while quiet, for the first         *)
(* 2 * MaxSess insertions: the sessions that fill the table and as many more. *)
stays_quiet(q, r) == q /\ (r.inserted => Len(inserted) < 2 * MaxSess)
inserted_after(q, r) ==
    IF ~q THEN <<>>
    ELSE IF r.inserted THEN Append(inserted, r.tbl[Len(r.tbl)])
    ELSE inserted
n_evicted_after(q, r) ==
    IF ~q THEN 0
    ELSE IF r.ev.res = "Ok" THEN n_evicted + 1
    ELSE n_evicted

Packets ==
    {p \in [sess_id : {0} \cup LocalIds, peer_addr : Peers, exch_id : ExchIds,
            initiator : BOOLEAN, reliable : BOOLEAN, ack : BOOLEAN] :
        p.sess_id # 0 => p.peer_addr = "peerA"}

Recv(pkt, env) ==
    /\ ~panicked
    /\ LET r == ExchangeMgr_recv(exchanges, sess_tbl, pkt, env)
           q == stays_quiet(quiet /\ sess_mgr_find(sess_tbl, pkt) = 0, r)
       IN
        /\ exchanges' = r.exchanges
        /\ sess_tbl' = r.tbl
        /\ quiet' = q
        /\ inserted' = inserted_after(q, r)
        /\ n_evicted' = n_evicted_after(q, r)
        /\ ex_last' = ExLast("recv", r)
    /\ UNCHANGED <<sessOnly, panicked>>

\* ExchangeMgr::add_session; the local session id of the clone data is one
\* that was allocated for it, so no live session has it
CloneDatas == [local_sess_id : LocalIds, peer_addr : {"peerA"}]

AddSess(cd, env) ==
    /\ ~panicked
    /\ \A i \in 1..Len(sess_tbl) : sess_tbl[i].local_sess_id # cd.local_sess_id
    /\ LET r == add_session(exchanges, sess_tbl, cd, env)
           q == stays_quiet(quiet, r)
       IN
        /\ exchanges' = r.exchanges
        /\ sess_tbl' = r.tbl
        /\ quiet' = q
        /\ inserted' = inserted_after(q, r)
        /\ n_evicted' = n_evicted_after(q, r)
        /\ ex_last' = ExLast("add_session", r)
    /\ UNCHANGED <<sessOnly, panicked>>

\* ExchangeMgr::evict_session called on its own
EvictSession(index, env) ==
    /\ ~panicked
    /\ LET ev == evict_session(exchanges, sess_tbl, index, env) IN
        /\ exchanges' = ev.exchanges
        /\ sess_tbl' = ev.tbl
        /\ quiet' = FALSE
        /\ inserted' = <<>>
        /\ n_evicted' = 0
        /\ ex_last' = ExLast("evict_session",
                             OpResult(ev.res, ev.exchanges, ev.tbl, ev, 0, FALSE))
    /\ UNCHANGED <<sessOnly, panicked>>

\* ExchangeMgr::get.  The owner of an exchange it creates is the peer of the
\* session that has the local id, if there is one.
ApiGet(sess_id, id, role, create_new) ==
    /\ ~panicked
    /\ LET g == ExchangeMgr_get(exchanges, sess_id, id, role, create_new)
           isnew == Len(g.exchanges) > Len(exchanges)
           si == sess_mgr_get_with_id(sess_tbl, sess_id)
       IN
        /\ exchanges' = IF isnew /\ si # 0
                        THEN [g.exchanges EXCEPT ![Len(g.exchanges)].owner =
                                                    sess_tbl[si].peer_addr]
                        ELSE g.exchanges
        /\ ex_last' = [op |-> "get", res |-> g.res, created |-> isnew,
                       attempt |-> create_new /\ ~contains_key(exchanges, id)]
    /\ UNCHANGED <<sessOnly, panicked, sess_tbl, quiet, inserted, n_evicted>>

\* Exchange::acquire on the exchange get_with_id returns
Acquire(id) ==
    /\ ~panicked
    /\ contains_key(exchanges, id)
    /\ map_get(exchanges, id).user_cnt < MaxUsers
    /\ exchanges' = [exchanges EXCEPT ![key_index(exchanges, id)].user_cnt = @ + 1]
    /\ ex_last' = ExLastX("acquire", "Ok")
    /\ UNCHANGED <<sessOnly, panicked, sess_tbl, quiet, inserted, n_evicted>>

\* Exchange::release (Exchange::close is a release after the exchange data is
\* cleared).  `self.user_cnt -= 1` on 0 wraps to 255 in a build without
\* overflow checks and aborts the program in one with them; the tables of an
\* aborted program are gone.
Release(id) ==
    /\ ~panicked
    /\ contains_key(exchanges, id)
    /\ map_get(exchanges, id).user_cnt <= MaxUsers
    /\ \/ /\ exchanges' = [exchanges EXCEPT ![key_index(exchanges, id)].user_cnt =
                                IF @ = 0 THEN U8Max ELSE @ - 1]
          /\ ex_last' = ExLastX("release", "Ok")
          /\ UNCHANGED <<panicked, sess_tbl, quiet, inserted, n_evicted>>
       \/ /\ map_get(exchanges, id).user_cnt = 0
          /\ panicked' = TRUE
          /\ exchanges' = <<>>
          /\ sess_tbl' = <<>>
          /\ quiet' = FALSE
          /\ inserted' = <<>>
          /\ n_evicted' = 0
          /\ ex_last' = ExLastX("release", "panic")
    /\ UNCHANGED sessOnly

\* ExchangeMgr::purge
Purge ==
    /\ ~panicked
    /\ exchanges' = purge(exchanges)
    /\ ex_last' = [op |-> "purge", res |-> "Ok",
                   n_removed |-> Len(exchanges) - Len(purge(exchanges))]
    /\ UNCHANGED <<sessOnly, panicked, sess_tbl, quiet, inserted, n_evicted>>

\* ExchangeMgr::pending_acks, called with an empty map.  The unwrap of a
\* failed insert aborts the program.
PendingAcks ==
    /\ ~panicked
    /\ IF pending_acks(exchanges).res = "Ok"
       THEN /\ ex_last' = ExLastX("pending_acks", "Ok")
            /\ UNCHANGED <<panicked, exchanges, sess_tbl, quiet, inserted, n_evicted>>
       ELSE /\ panicked' = TRUE
            /\ exchanges' = <<>>
            /\ sess_tbl' = <<>>
            /\ quiet' = FALSE
            /\ inserted' = <<>>
            /\ n_evicted' = 0
            /\ ex_last' = ExLastX("pending_acks", "panic")
    /\ UNCHANGED sessOnly

\* ExchangeMgr::send
ExchangeMgr_send(exs, tbl, exch_id, reliable, env) ==
    IF ~contains_key(exs, exch_id)
    THEN [res |-> "NoExchange", exchanges |-> exs, tbl |-> tbl]
    ELSE LET i == key_index(exs, exch_id)
             si == sess_mgr_get_with_id(tbl, exs[i].sess_id)
         IN IF si = 0
            THEN [res |-> "NoSession", exchanges |-> exs, tbl |-> tbl]
            ELSE LET sent == Exchange_send(exs, i, tbl[si], reliable, env)
                 IN [res |-> sent.res, exchanges |-> sent.exchanges,
                     tbl |-> sess_mgr_touch(tbl, si)]

Send(exch_id, reliable, env) ==
    /\ ~panicked
    /\ LET r == ExchangeMgr_send(exchanges, sess_tbl, exch_id, reliable, env)
           q == quiet /\ r.res \in {"NoExchange", "NoSession"}
       IN
        /\ exchanges' = r.exchanges
        /\ sess_tbl' = r.tbl
        /\ quiet' = q
        /\ inserted' = IF q THEN inserted ELSE <<>>
        /\ n_evicted' = IF q THEN n_evicted ELSE 0
        /\ ex_last' = ExLastX("send", r.res)
    /\ UNCHANGED <<sessOnly, panicked>>

InitExch ==
    /\ SessIdle
    /\ ExchIdle
    /\ CertIdle
    /\ AuxIdle

(* Session eviction: messages and new sessions arrive at an exchange manager *)
(* that starts empty.  A failure of the environment is drawn only where the  *)
(* operation can meet it: by an eviction on a full session table, by the     *)
(* decryption on an encrypted session.                                       *)
EvictPackets == {p \in Packets : ~p.ack /\ p.exch_id <= MaxExchanges}

NextEvict ==
    \/ \E pkt \in EvictPackets, env \in {"ok", "alloc_fail", "send_fail", "decrypt_fail"} :
          /\ env \in {"alloc_fail", "send_fail"} =>
                Len(sess_tbl) >= MaxSess /\ sess_mgr_find(sess_tbl, pkt) = 0
          /\ env = "decrypt_fail" => pkt.sess_id # 0 /\ sess_mgr_find(sess_tbl, pkt) # 0
          /\ Recv(pkt, env)
    \/ \E cd \in CloneDatas, env \in {"ok", "alloc_fail", "send_fail"} :
          /\ env # "ok" => Len(sess_tbl) >= MaxSess
          /\ AddSess(cd, env)
    \/ \E index \in 1..MaxSess, env \in {"ok", "alloc_fail", "send_fail"} :
          EvictSession(index, env)

SpecEvict == InitExch /\ [][NextEvict]_vars

(* The exchange table: lookups, user counts, sends and purge, under the      *)
(* messages of one peer.  The manager starts with the plaintext session of   *)
(* that peer and no exchange, the state after the peer's first messages did  *)
(* not have the initiator flag: recv has created and then touched the        *)
(* session, and has failed to find an exchange.                              *)
InitTable ==
    /\ SessIdle
    /\ CertIdle
    /\ AuxIdle
    /\ exchanges = <<>>
    /\ sess_tbl = <<PlainSession("peerA")>>
    /\ quiet = FALSE
    /\ inserted = <<>>
    /\ n_evicted = 0
    /\ ex_last = [op |-> "recv", res |-> "NoSpace", created |-> FALSE,
                  ev |-> "none", n_removed |-> 0, busy_removed |-> FALSE]

TablePackets == {p \in Packets : p.sess_id = 0 /\ p.peer_addr = "peerA"}

NextTable ==
    \/ \E pkt \in TablePackets : Recv(pkt, "ok")
    \/ \E id \in ExchIds, role \in Roles, c \in BOOLEAN : ApiGet(0, id, role, c)
    \/ \E id \in ExchIds : Acquire(id)
    \/ \E id \in ExchIds : Release(id)
    \/ Purge
    \/ PendingAcks
    \/ \E id \in ExchIds, rel \in BOOLEAN, env \in {"ok", "pre_send_fail"} :
          Send(id, rel, env)

SpecExch == InitTable /\ [][NextTable]_vars

----------------------------------------------------------------------------
(* Properties of session eviction (SpecEvict) *)

\* the indices of the sessions of sess_tbl that are no longer in the table
Gone == {i \in 1..Len(sess_tbl) :
            \A j \in 1..Len(sess_tbl') : sess_tbl'[j] # sess_tbl[i]}

(* C2: sessions are evicted in LRU order.  An add_session on a full table   *)
(* removes the least recently touched session, the first of the table, and  *)
(* no other; and while no session was touched after its insertion, the k-th *)
(* eviction for lack of space removes the k-th session inserted.            *)
C2_LruOrder ==
    [][(ex_last'.op = "add_session" /\ ex_last'.ev = "Ok") =>
          /\ Len(sess_tbl) = MaxSess
          /\ Gone = {sess_mgr_get_lru(sess_tbl)}
          /\ Len(sess_tbl') = MaxSess
          /\ quiet' => \A i \in Gone : sess_tbl[i] = inserted'[n_evicted']]_vars

\* the table was filled and add_session has evicted as many sessions as it
\* holds, with no traffic in between
C2_Witness ==
    /\ quiet
    /\ ex_last.op = "add_session"
    /\ ex_last.ev = "Ok"
    /\ n_evicted = MaxSess

(* C3: an eviction removes every exchange bound to the evicted session in the *)
(* same operation.  After evict_session, or an add_session that evicted, no   *)
(* exchange has the local id of the session that is gone; after a recv that   *)
(* evicted, the only exchange that can have it is the one the message has     *)
(* just created on its new session.                                           *)
C3_EvictRemovesExchanges ==
    [][(ex_last'.op \in {"evict_session", "add_session", "recv"} /\ ex_last'.ev = "Ok") =>
          \A i \in Gone :
            LET left == {j \in 1..Len(exchanges') :
                            exchanges'[j].sess_id = sess_tbl[i].local_sess_id}
            IN IF ex_last'.op = "recv" /\ ex_last'.created
               THEN \A j \in left : j = Len(exchanges') /\ exchanges'[j].user_cnt = 1
               ELSE left = {}]_vars

\* an eviction has removed two exchanges, with users and an ack pending
C3_Witness ==
    /\ ex_last.op \in {"evict_session", "add_session"}
    /\ ex_last.ev = "Ok"
    /\ ex_last.n_removed >= 2
    /\ ex_last.busy_removed

\* the session of sess_tbl that exchange e was created on
owner_of(e) ==
    {i \in 1..Len(sess_tbl) :
        /\ sess_tbl[i].local_sess_id = e.sess_id
        /\ sess_tbl[i].peer_addr = e.owner}

(* C4: evicting a session leaves the exchanges of every other, still-live   *)
(* session unchanged: an exchange created on a session that is in the table *)
(* before and after an evict_session or add_session is in the exchange      *)
(* table after it, as it was.                                               *)
C4_OtherExchangesStay ==
    [][(ex_last'.op \in {"evict_session", "add_session"} /\ ex_last'.ev = "Ok") =>
          \A k \in 1..Len(exchanges) :
            (owner_of(exchanges[k]) # {} /\ owner_of(exchanges[k]) \cap Gone = {}) =>
                \E j \in 1..Len(exchanges') : exchanges'[j] = exchanges[k]]_vars

\* the sessions of tbl that tbl2 no longer has
sessions_gone(tbl, tbl2) ==
    {i \in 1..Len(tbl) : \A j \in 1..Len(tbl2) : tbl2[j] # tbl[i]}

\* what C11 asks of the result r of a recv or add_session whose first attempt
\* (the session lookup or the clone) had the result first
one_eviction_one_retry(r, first) ==
    /\ r.ev.res # "none" <=> first = "NoSpace"
    /\ Cardinality(sessions_gone(sess_tbl, r.tbl)) <= 1
    /\ sessions_gone(sess_tbl, r.tbl) # {} <=> r.ev.res = "Ok"
    /\ first \notin {"Ok", "NoSpace"} =>
          /\ r.res = first
          /\ r.exchanges = exchanges
          /\ r.tbl = sess_tbl
    /\ (first = "NoSpace" /\ r.ev.res # "Ok") =>
          /\ r.res = r.ev.res
          /\ r.tbl = sess_tbl
    /\ r.ev.res = "Ok" => Len(r.tbl) = Len(sess_tbl)

(* C11: resource exhaustion is handled by one eviction and one retry.  In    *)
(* every reachable state, for every message and every clone data: recv and   *)
(* add_session evict if and only if their first attempt reported NoSpace,    *)
(* at most one session leaves the table, the retry puts the new session in   *)
(* its place, a failed eviction is returned with the session table as it     *)
(* was, and any other error of the first attempt is returned with both       *)
(* tables as they were.  The clone data carry a local session id that no     *)
(* session of the table has.                                                 *)
C11_OneEvictionOneRetry ==
    /\ \A pkt \in Packets, env \in {"ok", "alloc_fail", "send_fail"} :
          one_eviction_one_retry(ExchangeMgr_recv(exchanges, sess_tbl, pkt, env),
                                 sess_mgr_recv(sess_tbl, pkt).res)
    /\ \A cd \in CloneDatas, env \in {"ok", "alloc_fail", "send_fail"} :
          (\A i \in 1..Len(sess_tbl) : sess_tbl[i].local_sess_id # cd.local_sess_id) =>
          one_eviction_one_retry(add_session(exchanges, sess_tbl, cd, env),
                                 sess_mgr_clone_session(sess_tbl, cd).res)

\* a recv on a full table has evicted a session and its retry has succeeded
C11_Witness ==
    /\ ex_last.op = "recv"
    /\ ex_last.ev = "Ok"
    /\ ex_last.res = "Ok"
    /\ Len(sess_tbl) = MaxSess

(* C12: every session eviction emits a CloseSession status report to the    *)
(* peer of the evicted session exactly once, whether the session has zero,  *)
(* one or several exchanges.  In every reachable state, an evict_session    *)
(* that returns Ok for a session of the table has sent the report, on one   *)
(* exchange.                                                                *)
C12_CloseSessionOnce ==
    \A index \in 1..Len(sess_tbl) :
        LET ev == evict_session(exchanges, sess_tbl, index, "ok")
        IN ev.res = "Ok" => ev.close_sent

----------------------------------------------------------------------------
(* Properties of the exchange table (SpecExch) *)

(* C5: purge removes an exchange if and only if its user count is 0 and its  *)
(* MRP state is empty, and leaves every other exchange in the table as it    *)
(* was; the user count is 1 at creation, one more after an acquire and one   *)
(* less after a release of an exchange that has users.                       *)
C5_PurgeExact ==
    [][/\ ex_last'.op = "purge" =>
            /\ \A i \in 1..Len(exchanges) :
                  (\E j \in 1..Len(exchanges') : exchanges'[j] = exchanges[i])
                      <=> ~(exchanges[i].user_cnt = 0 /\ mrp_is_empty(exchanges[i].mrp))
            /\ \A j \in 1..Len(exchanges') :
                  \E i \in 1..Len(exchanges) : exchanges[i] = exchanges'[j]
            /\ ex_last'.n_removed = Len(exchanges) - Len(exchanges')
       /\ (ex_last'.op \in {"get", "recv"} /\ ex_last'.created) =>
            /\ Len(exchanges') = Len(exchanges) + 1
            /\ exchanges'[Len(exchanges')].user_cnt = 1
       /\ ex_last'.op = "acquire" =>
            \E i \in 1..Len(exchanges) :
                exchanges' = [exchanges EXCEPT ![i].user_cnt = @ + 1]
       /\ (ex_last'.op = "release" /\ ex_last'.res = "Ok") =>
            \E i \in 1..Len(exchanges) :
                \/ /\ exchanges[i].user_cnt > 0
                   /\ exchanges' = [exchanges EXCEPT ![i].user_cnt = @ - 1]
                \/ /\ exchanges[i].user_cnt = 0
                   /\ exchanges' = [exchanges EXCEPT ![i].user_cnt = U8Max]]_vars

\* a purge has removed an exchange and left one that has a user or something
\* pending
C5_Witness ==
    /\ ex_last.op = "purge"
    /\ ex_last.n_removed >= 1
    /\ Len(exchanges) >= 1

\* the exchanges of exs2 that exs does not have under the same id
new_exchanges(exs, exs2) ==
    {j \in 1..Len(exs2) : ~contains_key(exs, exs2[j].id)}

(* C9: recv creates an exchange only for a message with the initiator flag   *)
(* set, and with the role Responder; a message with the flag clear whose     *)
(* exchange id matches no exchange creates nothing and makes recv fail.      *)
(* In every reachable state, for every message that can arrive.              *)
C9_RecvCreatesForInitiator ==
    \A pkt \in Packets :
        LET r == ExchangeMgr_recv(exchanges, sess_tbl, pkt, "ok")
            new == new_exchanges(exchanges, r.exchanges)
        IN /\ \A j \in new : /\ pkt.initiator
                             /\ r.exchanges[j].id = pkt.exch_id
                             /\ r.exchanges[j].role = "Responder"
           /\ Len(r.exchanges) <= Len(exchanges) + 1
           /\ (~pkt.initiator /\ ~contains_key(exchanges, pkt.exch_id)) =>
                 /\ r.res # "Ok"
                 /\ r.exchanges = exchanges

\* a recv has created an exchange, which is a Responder
C9_Witness ==
    /\ ex_last.op = "recv"
    /\ ex_last.res = "Ok"
    /\ ex_last.created
    /\ exchanges[Len(exchanges)].role = "Responder"

(* C10: the exchange table never holds more than MaxExchanges exchanges; on  *)
(* a full table, a get asked to create one more, and a recv of a message of  *)
(* a session that would create one more, fail with NoSpace and leave the     *)
(* exchanges as they are.                                                    *)
C10_TableBounded ==
    /\ Len(exchanges) <= MaxExchanges
    /\ Cardinality(map_keys(exchanges)) = Len(exchanges)
    /\ Len(exchanges) = MaxExchanges =>
        /\ \A sid \in {0} \cup LocalIds, id \in ExchIds \ map_keys(exchanges), role \in Roles :
              ExchangeMgr_get(exchanges, sid, id, role, TRUE)
                  = [res |-> "NoSpace", exchanges |-> exchanges]
        /\ \A pkt \in Packets :
              (/\ pkt.initiator
               /\ ~contains_key(exchanges, pkt.exch_id)
               /\ sess_mgr_recv(sess_tbl, pkt).res = "Ok") =>
                  LET r == ExchangeMgr_recv(exchanges, sess_tbl, pkt, "ok")
                  IN r.res = "NoSpace" /\ r.exchanges = exchanges

\* a get asked to create an exchange on a full table has failed
C10_Witness ==
    /\ ex_last.op = "get"
    /\ ex_last.attempt
    /\ ex_last.res = "NoSpace"
    /\ Len(exchanges) = MaxExchanges

----------------------------------------------------------------------------
(* The users of an exchange (Exchange::new, acquire, release, is_purgeable) *)
(* as in test_purge: exchanges are created through ExchangeMgr::get, then   *)
(* acquired, released and purged.  life counts, per exchange id, the        *)
(* acquires and releases since the exchange of that id was last created.    *)

\* the acquires and the releases that are counted
MaxAcquires == 2
MaxReleases == 3

\* Exchange::acquire: `self.user_cnt += 1` on 255 wraps to 0 in a build
\* without overflow checks
Exchange_acquire(e) == [e EXCEPT !.user_cnt = (@ + 1) % (U8Max + 1)]

\* mutant: release leaves the user count alone
Exchange_release_keep(e) == e

\* Exchange::release: `self.user_cnt -= 1` on 0 wraps to 255 in a build
\* without overflow checks
Exchange_release(e) == [e EXCEPT !.user_cnt = IF @ = 0 THEN U8Max ELSE @ - 1]

\* the tables of an aborted program are gone
Aborted(op) ==
    /\ panicked' = TRUE
    /\ exchanges' = <<>>
    /\ sess_tbl' = <<>>
    /\ quiet' = FALSE
    /\ inserted' = <<>>
    /\ n_evicted' = 0
    /\ ex_last' = ExLastX(op, "panic")

notLife == <<next_sess_id, sessions, cloned, sm_last, certVars, paseVars, asnVars, rxVars,
            decVars, cryptoVars>>

\* ExchangeMgr::get(0, id, Responder, true) for an id that is not in the table
LifeGet(id) ==
    /\ ~panicked
    /\ ~contains_key(exchanges, id)
    /\ \E g \in {ExchangeMgr_get(exchanges, 0, id, "Responder", TRUE)} :
        /\ exchanges' = g.exchanges
        /\ ex_last' = [op |-> "get", res |-> g.res,
                       created |-> Len(g.exchanges) > Len(exchanges),
                       attempt |-> TRUE]
        /\ life' = IF g.res = "Ok"
                   THEN [i \in DOMAIN life \cup {id} |->
                            IF i = id THEN [acq |-> 0, rel |-> 0] ELSE life[i]]
                   ELSE life
    /\ UNCHANGED <<notLife, panicked, sess_tbl, quiet, inserted, n_evicted>>

\* Exchange::acquire on the exchange get_with_id returns; a build with
\* overflow checks aborts when the count is 255
LifeAcquire(id) ==
    /\ ~panicked
    /\ contains_key(exchanges, id)
    /\ life[id].acq < MaxAcquires
    /\ \/ /\ exchanges' = [exchanges EXCEPT ![key_index(exchanges, id)] =
                                                Exchange_acquire(@)]
          /\ ex_last' = ExLastX("acquire", "Ok")
          /\ life' = [life EXCEPT ![id].acq = @ + 1]
          /\ UNCHANGED <<panicked, sess_tbl, quiet, inserted, n_evicted>>
       \/ /\ map_get(exchanges, id).user_cnt = U8Max
          /\ Aborted("acquire")
          /\ UNCHANGED life
    /\ UNCHANGED notLife

\* Exchange::release on the exchange get_with_id returns; a build with
\* overflow checks aborts when the count is 0
LifeRelease(id) ==
    /\ ~panicked
    /\ contains_key(exchanges, id)
    /\ life[id].rel < MaxReleases
    /\ \/ /\ exchanges' = [exchanges EXCEPT ![key_index(exchanges, id)] =
                                                Exchange_release(@)]
          /\ ex_last' = ExLastX("release", "Ok")
          /\ life' = [life EXCEPT ![id].rel = @ + 1]
          /\ UNCHANGED <<panicked, sess_tbl, quiet, inserted, n_evicted>>
       \/ /\ map_get(exchanges, id).user_cnt = 0
          /\ Aborted("release")
          /\ UNCHANGED life
    /\ UNCHANGED notLife

NextLife ==
    \/ \E id \in ExchIds : LifeGet(id)
    \/ \E id \in ExchIds : LifeAcquire(id)
    \/ \E id \in ExchIds : LifeRelease(id)
    \/ Purge
    \/ \E id \in ExchIds, rel \in BOOLEAN : Send(id, rel, "ok")

SpecLife == InitTable /\ [][NextLife]_vars

\* an exchange of the table that was acquired acq times and released rel
\* times since its creation
lived(id, acq, rel) ==
    /\ contains_key(exchanges, id)
    /\ life[id] = [acq |-> acq, rel |-> rel]

\* a step of ExchangeMgr::purge
PurgeStep == ~panicked /\ ex_last'.op = "purge" /\ exchanges' = purge(exchanges)

(* C21: an exchange that was created, acquired twice and released twice is  *)
(* removed from the table by the next purge.                                *)
C21_PurgeAfterTwoReleases ==
    [][\A id \in ExchIds :
          (PurgeStep /\ lived(id, 2, 2)) => ~contains_key(exchanges', id)]_vars

(* C21, amended: an exchange that was created, acquired twice and released  *)
(* twice still has the user counted at its creation, and the next purge     *)
(* keeps it; after a third release, and with no ack or retransmission       *)
(* pending, the next purge removes it.                                      *)
C21_PurgeAfterThreeReleases ==
    [][\A id \in ExchIds :
          /\ (PurgeStep /\ lived(id, 2, 2)) => contains_key(exchanges', id)
          /\ (PurgeStep /\ lived(id, 2, 3) /\ mrp_is_empty(map_get(exchanges, id).mrp))
                => ~contains_key(exchanges', id)]_vars

\* purge has just removed an exchange, and the other exchange of the table,
\* acquired twice and released twice, is still there
C21_Witness ==
    /\ ex_last.op = "purge"
    /\ ex_last.n_removed = 1
    /\ \E id \in ExchIds : lived(id, 2, 2) /\ map_get(exchanges, id).user_cnt = 1

----------------------------------------------------------------------------
(* Duplicate detection (specification, section 4.6): each session keeps the *)
(* counters it has received in a bounded recent window.  A message whose    *)
(* counter is in the window of its session is a duplicate: its payload is   *)
(* dropped and an ack is marked pending.                                    *)

\* the size of the window (32 in the specification), scaled down
RxWindow == 2
\* the message counters of the packets
MaxCtr == 3
Ctrs == 1..MaxCtr

\* the counters in the window of session sess
window_of(win, sess) == {x.ctr : x \in {y \in win : y.sess = sess}}

\* the window after counter ctr was accepted: it holds the RxWindow counters
\* up to the greatest one received
window_record(seen, ctr) ==
    LET top == IF seen = {} THEN ctr
               ELSE CHOOSE m \in seen \cup {ctr} : \A x \in seen \cup {ctr} : x <= m
    IN  {x \in seen \cup {ctr} : x > top - RxWindow}

\* the reliability layer on a packet that recv has brought as far as its
\* exchange with result r: a duplicate is dropped with an error and the ack
\* marked pending on the exchange, any other counter is put in the window
\* of the session
mrp_recv_counted(r, live, pkt, ctr, dup) ==
    IF r.res # "Ok" THEN [r |-> r, win |-> live, dup |-> dup]
    ELSE IF dup
    THEN [r |-> [r EXCEPT !.res = "Duplicate",
                          !.exchanges[key_index(r.exchanges, pkt.exch_id)]
                               .mrp.ack_pending = TRUE],
          win |-> live, dup |-> TRUE]
    ELSE [r |-> r,
          win |-> {x \in live : x.sess # r.tbl[Len(r.tbl)]}
                    \cup {[sess |-> r.tbl[Len(r.tbl)], ctr |-> c] :
                            c \in window_record(window_of(live, r.tbl[Len(r.tbl)]), ctr)},
          dup |-> FALSE]

\* the windows of the sessions that are still in the table
live_windows(win, tbl) == {x \in win : \E i \in 1..Len(tbl) : tbl[i] = x.sess}

\* ExchangeMgr::recv of a packet with counter ctr, whose result without the
\* counter is r: the session is located, the payload decrypted and the
\* exchange found or created as for any packet, then the reliability layer
\* sees it
recv_counted(r, tbl, win, pkt, ctr) ==
    mrp_recv_counted(r, live_windows(win, r.tbl), pkt, ctr,
                     /\ sess_mgr_find(tbl, pkt) # 0
                     /\ ctr \in window_of(win, tbl[sess_mgr_find(tbl, pkt)]))

RecvCounted(pkt, ctr, env) ==
    /\ ~panicked
    /\ \E c \in {recv_counted(ExchangeMgr_recv(exchanges, sess_tbl, pkt, env),
                              sess_tbl, rx_win, pkt, ctr)} :
        /\ exchanges' = c.r.exchanges
        /\ sess_tbl' = c.r.tbl
        /\ quiet' = stays_quiet(quiet /\ sess_mgr_find(sess_tbl, pkt) = 0, c.r)
        /\ inserted' = inserted_after(quiet', c.r)
        /\ n_evicted' = n_evicted_after(quiet', c.r)
        /\ ex_last' = ExLast("recv", c.r)
        /\ rx_win' = c.win
        /\ rx_last' = [dup |-> c.dup, exch_id |-> pkt.exch_id, sess_id |-> pkt.sess_id]
    /\ UNCHANGED <<sessVars, certVars, paseVars, asnVars, lifeVars, decVars, cryptoVars>>

\* the exchange ids in use here
DupExchIds == 1..MaxExchanges
DupPackets == {p \in TablePackets : p.exch_id \in DupExchIds /\ p.reliable /\ ~p.ack}

NextDup ==
    \/ \E pkt \in DupPackets, ctr \in Ctrs : RecvCounted(pkt, ctr, "ok")
    \/ \E id \in DupExchIds : ApiGet(0, id, "Initiator", TRUE)
    \/ \E id \in DupExchIds : Release(id)
    \/ Purge
    \/ \E id \in DupExchIds : Send(id, FALSE, "ok")

SpecDup == InitTable /\ [][NextDup]_vars

(* C18: a received message whose counter is in the recent window of its     *)
(* session is dropped, that is recv does not hand it over, and an ack is    *)
(* left pending for it on its exchange.                                     *)
C18_DuplicateDroppedAndAcked ==
    (ex_last.op = "recv" /\ rx_last.dup) =>
        /\ ex_last.res # "Ok"
        /\ \E i \in 1..Len(exchanges) :
              /\ exchanges[i].id = rx_last.exch_id
              /\ exchanges[i].sess_id = rx_last.sess_id
              /\ mrp_is_ack_ready(exchanges[i].mrp)

\* the exchanges of the table that have an ack ready
ack_ready_keys == {exchanges[i].id : i \in {j \in 1..Len(exchanges) :
                                              mrp_is_ack_ready(exchanges[j].mrp)}}

(* C16: no sequence of received packets makes the ack scan panic.  In every *)
(* reachable exchange table, with any number from 0 to MaxExchanges of      *)
(* exchanges that have an ack ready, pending_acks returns normally and      *)
(* reports every one of them.                                               *)
C16_PendingAcksNoPanic ==
    /\ pending_acks(exchanges).res = "Ok"
    /\ {pending_acks(exchanges).entries[k] :
            k \in 1..Len(pending_acks(exchanges).entries)} = ack_ready_keys

----------------------------------------------------------------------------
(* The certificate chain verifier (src/matter/src/cert/mod.rs).              *)
(*                                                                          *)
(* A Cert is a byte buffer; the verifier sees it through its queries.  A     *)
(* certificate is modelled by what the queries return: the auth-key-id and   *)
(* the subject-key-id of its extensions and its public key, each "none" when *)
(* the TLV has no such element; signer, the key under which its signature    *)
(* verifies over its DER form, "none" when it verifies under no key and      *)
(* "absent" when the TLV has no signature element; and whether the DER form  *)
(* fits into MAX_ASN1_CERT_SIZE bytes.                                       *)

\* add_cert steps on one chain
MaxChain == 2

Keys == {"k1", "k2"}
Certs ==
    [akid : Keys \cup {"none"}, skid : Keys \cup {"none"},
     pubkey : Keys \cup {"none"}, signer : Keys \cup {"none", "absent"},
     der_fits : BOOLEAN]

\* Cert::is_authority: an error, or whether our auth-key-id is their
\* subject-key-id
is_authority(our, their) ==
    IF our.akid = "none" THEN [res |-> "Invalid", val |-> FALSE]
    ELSE IF their.skid = "none" THEN [res |-> "Invalid", val |-> FALSE]
    ELSE [res |-> "Ok", val |-> our.akid = their.skid]

\* Cert::as_asn1 into the buffer of MAX_ASN1_CERT_SIZE bytes
as_asn1(cert) == IF cert.der_fits THEN "Ok" ELSE "NoSpace"

\* Cert::get_pubkey
get_pubkey(cert) == IF cert.pubkey = "none" THEN "Invalid" ELSE "Ok"

\* Cert::get_signature
get_signature(cert) == IF cert.signer = "absent" THEN "Invalid" ELSE "Ok"

\* KeyPair::verify_msg of the key over the DER form and signature of cert
verify_msg(key, cert) ==
    IF key \in Keys /\ cert.signer = key THEN "Ok" ELSE "InvalidSignature"

\* mutant: the signature is verified before the authority link is looked at
add_cert_signature_first(cert, parent) ==
    IF as_asn1(cert) # "Ok" THEN [res |-> as_asn1(cert), cert |-> NoVerifier]
    ELSE IF get_pubkey(parent) # "Ok" THEN [res |-> "Invalid", cert |-> NoVerifier]
    ELSE IF get_signature(cert) # "Ok" THEN [res |-> "Invalid", cert |-> NoVerifier]
    ELSE IF verify_msg(parent.pubkey, cert) # "Ok"
    THEN [res |-> "InvalidSignature", cert |-> NoVerifier]
    ELSE IF is_authority(cert, parent).res # "Ok"
    THEN [res |-> is_authority(cert, parent).res, cert |-> NoVerifier]
    ELSE IF ~is_authority(cert, parent).val
    THEN [res |-> "InvalidAuthKey", cert |-> NoVerifier]
    ELSE [res |-> "Ok", cert |-> parent]

\* CertVerifier::add_cert: the result and the certificate of the verifier it
\* returns
add_cert(cert, parent) ==
    LET auth == is_authority(cert, parent) IN
    IF auth.res # "Ok" THEN [res |-> auth.res, cert |-> NoVerifier]
    ELSE IF ~auth.val THEN [res |-> "InvalidAuthKey", cert |-> NoVerifier]
    ELSE IF as_asn1(cert) # "Ok" THEN [res |-> as_asn1(cert), cert |-> NoVerifier]
    ELSE IF get_pubkey(parent) # "Ok"
    THEN [res |-> get_pubkey(parent), cert |-> NoVerifier]
    ELSE IF get_signature(cert) # "Ok"
    THEN [res |-> get_signature(cert), cert |-> NoVerifier]
    ELSE IF verify_msg(parent.pubkey, cert) # "Ok"
    THEN [res |-> verify_msg(parent.pubkey, cert), cert |-> NoVerifier]
    ELSE [res |-> "Ok", cert |-> parent]

\* mutant: the certificate only has to name itself as its authority
finalise_link_only(cert) ==
    IF is_authority(cert, cert).res # "Ok" THEN is_authority(cert, cert).res
    ELSE IF ~is_authority(cert, cert).val THEN "InvalidAuthKey"
    ELSE "Ok"

\* CertVerifier::finalise
finalise(cert) == add_cert(cert, cert).res

(* cert_last records the operation, its result, the parent it was given, and *)
(* what the two certificates say: whether the auth-key-id of the verifier's  *)
(* certificate is the subject-key-id of the parent, and whether its          *)
(* signature verifies under the parent's public key.                         *)
CertLast(op, res, cert, parent) ==
    [op |-> op, res |-> res, parent |-> parent,
     link |-> cert.akid = parent.skid,
     sig |-> verify_msg(parent.pubkey, cert) = "Ok"]

\* Cert::verify_chain_start
VerifyChainStart(cert) ==
    /\ verifier' = cert
    /\ n_certs' = 0
    /\ cert_last' = [op |-> "verify_chain_start"]
    /\ UNCHANGED <<sessVars, exchVars, auxVars>>

AddCert(parent) ==
    /\ verifier # NoVerifier
    /\ n_certs < MaxChain
    /\ LET r == add_cert(verifier, parent) IN
        /\ verifier' = r.cert
        /\ n_certs' = IF r.res = "Ok" THEN n_certs + 1 ELSE n_certs
        /\ cert_last' = CertLast("add_cert", r.res, verifier, parent)
    /\ UNCHANGED <<sessVars, exchVars, auxVars>>

Finalise ==
    /\ verifier # NoVerifier
    /\ verifier' = NoVerifier
    /\ cert_last' = CertLast("finalise", finalise(verifier), verifier, verifier)
    /\ UNCHANGED <<sessVars, exchVars, auxVars, n_certs>>

InitCert ==
    /\ SessIdle
    /\ ExchIdle
    /\ CertIdle
    /\ AuxIdle

NextCert ==
    \/ \E cert \in Certs : VerifyChainStart(cert)
    \/ \E parent \in Certs : AddCert(parent)
    \/ Finalise

SpecCert == InitCert /\ [][NextCert]_vars

----------------------------------------------------------------------------
(* decode_cert of src/matter/src/cert/mod.rs (SpecDec) *)
(* The top-level TLV struct is the sequence of its elements as the struct's  *)
(* iterator yields them.  An element is its tag and val: "ok" when its value *)
(* decodes and the sink takes what it maps to, else the error that decoding  *)
(* or the sink returns.  The output is the sequence of the tags of the       *)
(* elements that were pushed to the sink.                                    *)

\* CertTags: the last tag that decode_cert asks for, and the signature
Extensions == 10

Signature == 11

\* the largest tag of an element of the model
MaxTag == 12

ValErrs == {"Invalid", "InvalidData", "TLVTypeMismatch", "NoSpace"}

\* mutant: the tag of the element is not compared
get_next_tag_any(tlv, pos, tag) ==
    IF pos > Len(tlv) THEN [res |-> "Invalid"]
    ELSE [res |-> "Ok", el |-> tlv[pos]]

\* get_next_tag, pos the position of the iterator
get_next_tag(tlv, pos, tag) ==
    IF pos > Len(tlv) THEN [res |-> "Invalid"]
    ELSE IF tlv[pos].tag # tag THEN [res |-> "TLVTypeMismatch"]
    ELSE [res |-> "Ok", el |-> tlv[pos]]

\* decode_cert from the element for tag on, which is the next of the iterator
RECURSIVE decode_from(_, _, _)
decode_from(tlv, tag, out) ==
    IF tag > Extensions THEN [res |-> "Ok", out |-> out]
    ELSE LET current == get_next_tag(tlv, tag, tag)
         IN  IF current.res # "Ok" THEN [res |-> current.res, out |-> out]
             ELSE IF current.el.val # "ok" THEN [res |-> current.el.val, out |-> out]
             ELSE decode_from(tlv, tag + 1, Append(out, current.el.tag))

\* decode_cert
decode_cert(tlv) == decode_from(tlv, 1, <<>>)

\* the struct of a well-formed certificate
Canon == [i \in 1..Signature |-> [tag |-> i, val |-> "ok"]]

\* a well-formed certificate and its variations: the struct ends early, one
\* element is missing, two neighbours are exchanged, one element has another
\* tag, the value of one element is bad, one more element follows
TlvStructs ==
    {SubSeq(Canon, 1, k) : k \in 0..Signature}
    \cup {SubSeq(Canon, 1, i - 1) \o SubSeq(Canon, i + 1, Signature) : i \in 1..Signature}
    \cup {[Canon EXCEPT ![i] = Canon[i + 1], ![i + 1] = Canon[i]] : i \in 1..(Signature - 1)}
    \cup {[Canon EXCEPT ![i].tag = t] : i \in 1..Signature, t \in 1..MaxTag}
    \cup {[Canon EXCEPT ![i].val = e] : i \in 1..Signature, e \in ValErrs}
    \cup {SubSeq(Canon, 1, k) \o <<[tag |-> t, val |-> "ok"]>> :
             k \in {Extensions, Signature}, t \in 1..MaxTag}

notDec == <<sessVars, exchVars, certVars, paseVars, asnVars, rxVars, lifeVars,
            cryptoVars>>

DecodeCert ==
    /\ dec.res = "none"
    /\ \E r \in {decode_cert(dec.tlv)} :
          dec' = [dec EXCEPT !.res = r.res, !.out = r.out]
    /\ UNCHANGED notDec

InitDec ==
    /\ SessIdle
    /\ ExchIdle
    /\ CertIdle
    /\ PaseIdle
    /\ AsnIdle
    /\ RxIdle
    /\ LifeIdle
    /\ CryptoIdle
    /\ \E tlv \in TlvStructs : dec = [tlv |-> tlv, res |-> "none", out |-> <<>>]

NextDec == DecodeCert

SpecDec == InitDec /\ [][NextDec]_vars

----------------------------------------------------------------------------
(* CryptoOpenSSL of src/src/secure_channel/crypto_openssl.rs (SpecSpake) *)
(* The curve is a cyclic group of order EcOrder; the point k*P, P the       *)
(* generator, is the number k modulo EcOrder, so that the addition of       *)
(* points and the multiplication by a scalar are those of the integers      *)
(* modulo EcOrder.  A BigNum is a natural number, a byte string a sequence  *)
(* of bytes.                                                                *)

\* the bytes of a half of w0w1s (CRYPTO_W_SIZE_BYTES, scaled)
WSize == 1

Points == 0..(EcOrder - 1)

\* BigNum::from_slice: the big-endian number of the bytes
RECURSIVE from_slice(_)
from_slice(bytes) ==
    IF bytes = <<>> THEN 0
    ELSE 256 * from_slice(SubSeq(bytes, 1, Len(bytes) - 1)) + bytes[Len(bytes)]

\* BigNum::checked_rem
checked_rem(a, m) == a % m

\* BigNum::mod_mul
mod_mul(a, b, m) == (a * b) % m

\* BigNum::rand_range on the range: the numbers it can place in rnd
rand_range(range) == 0..(range - 1)

\* EcPoint::mul, EcPoint::add, EcPoint::invert, EcPoint::mul_generator
ec_mul(q, m) == (q * (m % EcOrder)) % EcOrder

ec_add(a, b) == (a + b) % EcOrder

ec_invert(q) == (EcOrder - q) % EcOrder

mul_generator(n) == n % EcOrder

\* CryptoOpenSSL::do_add_mul: a*b + c*d
do_add_mul(a, b, c, d) == ec_add(ec_mul(a, b), ec_mul(c, d))

\* CryptoOpenSSL::set_w0_from_w0s, set_w1_from_w1s, set_w0, set_w1
set_w0_from_w0s(self, w0s) == [self EXCEPT !.w0 = checked_rem(from_slice(w0s), EcOrder)]

set_w1_from_w1s(self, w1s) == [self EXCEPT !.w1 = checked_rem(from_slice(w1s), EcOrder)]

set_w0(self, w0) == [self EXCEPT !.w0 = from_slice(w0)]

set_w1(self, w1) == [self EXCEPT !.w1 = from_slice(w1)]

\* CryptoOpenSSL::get_L: the instance after the call and the point returned
get_L(self, w0w1s) ==
    LET self2 == set_w0_from_w0s(self, w0w1s)
    IN  [self |-> self2, L |-> mul_generator(self2.w0)]

\* CryptoOpenSSL::get_XY with the scalar xy that rand_range has placed
get_XY(self, xy, MN, w0w1) ==
    [self |-> [self EXCEPT !.xy = xy], XY |-> do_add_mul(1, xy, MN, w0w1)]

\* CryptoOpenSSL::get_ZV_as_prover: N after the call (it is inverted in
\* place), Z and V
get_ZV_as_prover(w0, w1, N, Y, x) ==
    LET tmp == mod_mul(x, w0, EcOrder)
        N2 == ec_invert(N)
        tmp2 == mod_mul(w1, w0, EcOrder)
    IN  [N |-> N2, Z |-> do_add_mul(Y, x, N2, tmp), V |-> do_add_mul(Y, w1, N2, tmp2)]

\* CryptoOpenSSL::get_ZV_as_verifier: M after the call (it is inverted in
\* place), Z and V
get_ZV_as_verifier(w0, L, M, X, y) ==
    LET tmp == mod_mul(y, w0, EcOrder)
        M2 == ec_invert(M)
    IN  [M |-> M2, Z |-> do_add_mul(X, y, M2, tmp), V |-> ec_mul(L, y)]

\* the bytes of the inputs, and the two halves w0s and w1s of w0w1s
WBytes == {0, 9, 255}

WStrs == [1..WSize -> WBytes]

W0W1Strs == [1..(2 * WSize) -> WBytes]

notCrypto == <<sessVars, exchVars, certVars, paseVars, asnVars, rxVars, lifeVars, decVars>>

SetW0FromW0s(w0s) ==
    /\ crypto' = set_w0_from_w0s(crypto, w0s)
    /\ cr_last' = [op |-> "set_w0_from_w0s", in |-> w0s]
    /\ UNCHANGED notCrypto

SetW1FromW1s(w1s) ==
    /\ crypto' = set_w1_from_w1s(crypto, w1s)
    /\ cr_last' = [op |-> "set_w1_from_w1s", in |-> w1s]
    /\ UNCHANGED notCrypto

SetW0(w0) ==
    /\ crypto' = set_w0(crypto, w0)
    /\ cr_last' = [op |-> "set_w0", in |-> w0]
    /\ UNCHANGED notCrypto

SetW1(w1) ==
    /\ crypto' = set_w1(crypto, w1)
    /\ cr_last' = [op |-> "set_w1", in |-> w1]
    /\ UNCHANGED notCrypto

GetL(w0w1s) ==
    /\ \E r \in {get_L(crypto, w0w1s)} :
          /\ crypto' = r.self
          /\ cr_last' = [op |-> "get_L", in |-> w0w1s, L |-> r.L]
    /\ UNCHANGED notCrypto

\* get_XY for the share of the prover (M) or of the verifier (N), with the
\* stored w0
GetXY(mn) ==
    /\ \E xy \in rand_range(EcOrder) :
       \E r \in {get_XY(crypto, xy, IF mn = "M" THEN crypto.M ELSE crypto.N, crypto.w0)} :
          /\ crypto' = r.self
          /\ cr_last' = [op |-> "get_XY", in |-> mn, XY |-> r.XY]
    /\ UNCHANGED notCrypto

\* get_ZV_as_prover on the fields of the instance, as its test calls it
GetZVAsProver(Y) ==
    /\ \E r \in {get_ZV_as_prover(crypto.w0, crypto.w1, crypto.N, Y, crypto.xy)} :
          /\ crypto' = [crypto EXCEPT !.N = r.N]
          /\ cr_last' = [op |-> "get_ZV_as_prover",
                         in |-> <<crypto.w0, crypto.w1, Y, crypto.xy>>,
                         Z |-> r.Z, V |-> r.V]
    /\ UNCHANGED notCrypto

\* get_ZV_as_verifier on the fields of the instance, as its test calls it
GetZVAsVerifier(L, X) ==
    /\ \E r \in {get_ZV_as_verifier(crypto.w0, L, crypto.M, X, crypto.xy)} :
          /\ crypto' = [crypto EXCEPT !.M = r.M]
          /\ cr_last' = [op |-> "get_ZV_as_verifier",
                         in |-> <<crypto.w0, L, X, crypto.xy>>,
                         Z |-> r.Z, V |-> r.V]
    /\ UNCHANGED notCrypto

InitSpake ==
    /\ SessIdle
    /\ ExchIdle
    /\ CertIdle
    /\ AuxIdle

NextSpake ==
    \/ \E w0s \in WStrs : SetW0FromW0s(w0s)
    \/ \E w1s \in WStrs : SetW1FromW1s(w1s)
    \/ \E w0 \in WStrs : SetW0(w0)
    \/ \E w1 \in WStrs : SetW1(w1)
    \/ \E w0w1s \in W0W1Strs : GetL(w0w1s)
    \/ \E mn \in {"M", "N"} : GetXY(mn)
    \/ \E Y \in Points : GetZVAsProver(Y)
    \/ \E L \in Points, X \in Points : GetZVAsVerifier(L, X)

SpecSpake == InitSpake /\ [][NextSpake]_vars

----------------------------------------------------------------------------
(* Properties of the certificate chain verifier (SpecCert) *)

\* the signature of cert verifies under the public key of parent
sig_valid(cert, parent) ==
    parent.pubkey \in Keys /\ cert.signer = parent.pubkey

c7_decodes(cert, parent) ==
    /\ cert.akid # "none"
    /\ parent.skid # "none"
    /\ cert.akid = parent.skid =>
          (cert.der_fits /\ parent.pubkey # "none" /\ cert.signer # "absent")

self_signed(cert) ==
    /\ cert.akid # "none"
    /\ cert.akid = cert.skid
    /\ sig_valid(cert, cert)

----------------------------------------------------------------------------
(* The PASE handshake handlers (src/src/secure_channel/pake.rs).             *)
(*                                                                          *)
(* The handlers reach the exchange of the message through the session:      *)
(* set_exchange_data and get_and_clear_exchange_data (session.rs:151-168).  *)
(* The data parked on an exchange is "absent" when the session has no such  *)
(* exchange, "none" when the exchange holds no data, "spake2p" for a        *)
(* Spake2P object and "other" for an object of another type.                *)
(* Spake2P::set_context, start_verifier and handle_pA of this version are   *)
(* not among the sources; handle_pA is modelled from the specification      *)
(* (section 4.4): it fails on a pA that is not a valid point.               *)

\* what a TLV payload can be: well-formed, not a structure, or a structure
\* without one of the elements the handler reads
TlvForms == {"ok", "no_struct", "no_element"}

\* extract_pasepake1_params / extract_pbkdfreq_params
extract_params(tlv) ==
    CASE tlv = "ok" -> "Ok"
      [] tlv = "no_struct" -> "InvalidData"
      [] tlv = "no_element" -> "Invalid"

PbkdfReqs == [tlv : TlvForms, passcode_id : {0, 1}, has_params : BOOLEAN]
Pake1Msgs == [tlv : TlvForms, pA_valid : BOOLEAN]

\* Session::set_exchange_data
set_exchange_data(data) == IF data = "absent" THEN "NoExchange" ELSE "Ok"

\* Session::get_and_clear_exchange_data: what is taken, and what is left
get_and_clear_exchange_data(data) ==
    IF data \in {"absent", "none"} THEN [taken |-> "none", left |-> data]
    ELSE [taken |-> data, left |-> "none"]

\* Spake2P::handle_pA
handle_pA(msg) == IF msg.pA_valid THEN "Ok" ELSE "Invalid"

\* PAKE::handle_pbkdfparamrequest on an exchange whose data is data; wr_ok: the
\* transmit buffer has room for the response.  The result, the response that
\* was completed in the transmit buffer, and the data left on the exchange.
handle_pbkdfparamrequest(data, req, wr_ok) ==
    IF extract_params(req.tlv) # "Ok"
    THEN [res |-> extract_params(req.tlv), wrote |-> "none", data |-> data]
    ELSE IF req.passcode_id # 0
    THEN [res |-> "Invalid", wrote |-> "none", data |-> data]
    ELSE IF ~wr_ok
    THEN [res |-> "NoSpace", wrote |-> "none", data |-> data]
    ELSE IF set_exchange_data(data) # "Ok"
    THEN [res |-> set_exchange_data(data), wrote |-> "PBKDFParamResponse",
          data |-> data]
    ELSE [res |-> "Ok", wrote |-> "PBKDFParamResponse", data |-> "spake2p"]

\* mutant: a PASEPake1 without a parked object starts a new Spake2P
handle_pasepake1_new_spake2p(data, msg, wr_ok) ==
    IF data = "absent"
    THEN [res |-> "InvalidState", wrote |-> "none", data |-> data]
    ELSE IF extract_params(msg.tlv) # "Ok"
    THEN [res |-> extract_params(msg.tlv), wrote |-> "none", data |-> "none"]
    ELSE IF handle_pA(msg) # "Ok"
    THEN [res |-> handle_pA(msg), wrote |-> "none", data |-> "none"]
    ELSE IF ~wr_ok
    THEN [res |-> "NoSpace", wrote |-> "none", data |-> "none"]
    ELSE [res |-> "Ok", wrote |-> "PASEPake2", data |-> "spake2p"]

\* PAKE::handle_pasepake1
handle_pasepake1(data, msg, wr_ok) ==
    LET got == get_and_clear_exchange_data(data) IN
    IF got.taken = "none"
    THEN [res |-> "InvalidState", wrote |-> "none", data |-> got.left]
    ELSE IF got.taken # "spake2p"
    THEN [res |-> "InvalidState", wrote |-> "none", data |-> got.left]
    ELSE IF extract_params(msg.tlv) # "Ok"
    THEN [res |-> extract_params(msg.tlv), wrote |-> "none", data |-> got.left]
    ELSE IF handle_pA(msg) # "Ok"
    THEN [res |-> handle_pA(msg), wrote |-> "none", data |-> got.left]
    ELSE IF ~wr_ok
    THEN [res |-> "NoSpace", wrote |-> "none", data |-> got.left]
    ELSE [res |-> set_exchange_data(got.left), wrote |-> "PASEPake2",
          data |-> "spake2p"]

notPase == <<sessVars, exchVars, certVars, asnVars, rxVars, lifeVars, decVars,
            cryptoVars>>

PaseLast(op, e, r) == [op |-> op, exch |-> e, res |-> r.res, wrote |-> r.wrote]

\* the session creates the exchange of a first message (Session::get_exchange_id)
OpenExch(e) ==
    /\ pase_data[e] = "absent"
    /\ pase_data' = [pase_data EXCEPT ![e] = "none"]
    /\ pase_done' = pase_done \ {e}
    /\ pase_last' = [op |-> "open", exch |-> e]
    /\ pake2s' = [pake2s EXCEPT ![e] = 0]
    /\ UNCHANGED notPase

\* the exchange is closed and its slot freed
CloseExch(e) ==
    /\ pase_data[e] # "absent"
    /\ pase_data' = [pase_data EXCEPT ![e] = "absent"]
    /\ pase_done' = pase_done \ {e}
    /\ pase_last' = [op |-> "close", exch |-> e]
    /\ pake2s' = [pake2s EXCEPT ![e] = 0]
    /\ UNCHANGED notPase

\* another protocol parks its own object on the exchange (set_exchange_data)
ParkOther(e) ==
    /\ pase_data[e] # "absent"
    /\ pase_data' = [pase_data EXCEPT ![e] = "other"]
    /\ pase_last' = [op |-> "park_other", exch |-> e]
    /\ UNCHANGED <<notPase, pase_done, pake2s>>

\* the session of the handshake (proto_ctx.session): the one that
\* SessionMgr::get(0, peer, false) returns for the packets of the peer
pase_session == sessions[SessionMgr_get(sessions, 0, "peerA", FALSE)]

\* the our-sessid element (tag 3) of the PBKDFParamResponse
pbkdf_our_sessid(session) == session.local_sess_id

HandlePbkdfParamRequest(e, req, wr_ok) ==
    /\ LET r == handle_pbkdfparamrequest(pase_data[e], req, wr_ok) IN
        /\ pase_data' = [pase_data EXCEPT ![e] = r.data]
        /\ pase_done' = IF r.res = "Ok" THEN pase_done \cup {e} ELSE pase_done
        /\ pase_last' = [op |-> "pbkdfparamrequest", exch |-> e, res |-> r.res,
                         wrote |-> r.wrote,
                         sessid |-> IF r.wrote = "PBKDFParamResponse"
                                    THEN pbkdf_our_sessid(pase_session) ELSE 0]
        /\ pake2s' = IF r.res = "Ok" THEN [pake2s EXCEPT ![e] = 0] ELSE pake2s
    /\ UNCHANGED notPase

\* PASEPake2 responses counted on one exchange
MaxPake2 == 2

HandlePasePake1(e, msg, wr_ok) ==
    /\ pake2s[e] < MaxPake2
    /\ LET r == handle_pasepake1(pase_data[e], msg, wr_ok) IN
        /\ pase_data' = [pase_data EXCEPT ![e] = r.data]
        /\ pase_last' = PaseLast("pasepake1", e, r)
        /\ pake2s' = IF r.wrote = "PASEPake2" THEN [pake2s EXCEPT ![e] = @ + 1]
                      ELSE pake2s
    /\ UNCHANGED <<notPase, pase_done>>

\* the session manager after the first packet of the peer, which came on
\* session id 0 and made SessionMgr::get create the session of the handshake
PaseSessions ==
    /\ \E n \in {1, U16Max} :
          /\ sessions = SessionMgr_add(n, <<>>, "peerA").sessions
          /\ next_sess_id = SessionMgr_add(n, <<>>, "peerA").next
    /\ cloned = NoSession
    /\ panicked = FALSE
    /\ sm_last = Last("new", "Ok", 0, 0)

InitPase ==
    /\ PaseSessions
    /\ ExchIdle
    /\ CertIdle
    /\ PaseIdle
    /\ AsnIdle
    /\ RxIdle
    /\ LifeIdle
    /\ DecIdle
    /\ CryptoIdle

NextPase ==
    \/ \E e \in PaseExchIds : OpenExch(e)
    \/ \E e \in PaseExchIds : CloseExch(e)
    \/ \E e \in PaseExchIds : ParkOther(e)
    \/ \E e \in PaseExchIds, req \in PbkdfReqs, wr_ok \in BOOLEAN :
          HandlePbkdfParamRequest(e, req, wr_ok)
    \/ \E e \in PaseExchIds, msg \in Pake1Msgs, wr_ok \in BOOLEAN :
          HandlePasePake1(e, msg, wr_ok)

SpecPase == InitPase /\ [][NextPase]_vars

----------------------------------------------------------------------------
(* Properties of the PASE handshake (SpecPase) *)

(* C15: the PASE handshake steps happen in order.  A PASEPake2 is produced  *)
(* on an exchange only if a PBKDFParamRequest was processed successfully on *)
(* that exchange before; and a PASEPake1 that arrives on an exchange with   *)
(* no parked Spake2P object fails with InvalidState and writes no response. *)
C15_PaseInOrder ==
    [][pase_last'.op = "pasepake1" =>
          /\ pase_last'.wrote = "PASEPake2" => pase_last'.exch \in pase_done
          /\ pase_data[pase_last'.exch] # "spake2p" =>
                /\ pase_last'.res = "InvalidState"
                /\ pase_last'.wrote = "none"
                /\ pase_data'[pase_last'.exch] # "spake2p"]_vars

\* a PASEPake1 was answered with a PASEPake2 while the other exchange, on
\* which no PBKDFParamRequest has succeeded, is open
C15_Witness ==
    /\ pase_last.op = "pasepake1"
    /\ pase_last.res = "Ok"
    /\ pase_last.wrote = "PASEPake2"
    /\ \E e \in PaseExchIds : e \notin pase_done /\ pase_data[e] # "absent"

----------------------------------------------------------------------------
(* The ASN.1/DER writer (src/matter/src/cert/asn1_writer.rs).  A writer is   *)
(* the record [buf, offset, depth, current_depth]; buf is the caller's byte *)
(* slice, indexed here from 1, so that the byte at offset o is buf[o + 1].  *)
(* Every operation returns [res, w]: its result and the writer after it.    *)
(* The result "panic" stands for an abort of the program (an index out of   *)
(* bounds or, in a build with overflow checks, an arithmetic overflow).     *)

RESERVE_LEN_BYTES == 3

\* the bitwise or of two bytes
RECURSIVE BitOr(_, _)
BitOr(a, b) ==
    IF a = 0 THEN b
    ELSE IF b = 0 THEN a
    ELSE 2 * BitOr(a \div 2, b \div 2) + (IF a % 2 = 1 \/ b % 2 = 1 THEN 1 ELSE 0)

\* u8::trailing_zeros
RECURSIVE trailing_zeros(_)
trailing_zeros(b) ==
    IF b = 0 THEN 8 ELSE IF b % 2 = 1 THEN 0 ELSE 1 + trailing_zeros(b \div 2)

\* buf[at] = byte
put(buf, at, byte) == [buf EXCEPT ![at + 1] = byte]

\* buf[at..at + bytes.len()].copy_from_slice(bytes)
copy_from_slice(buf, at, bytes) ==
    SubSeq(buf, 1, at) \o bytes \o SubSeq(buf, at + Len(bytes) + 1, Len(buf))

\* ASN1Writer::as_slice
as_slice(w) == SubSeq(w.buf, 1, w.offset)

\* mutant: every length below 65536 takes the long form of three bytes
bytes_to_encode_len_long(len) ==
    IF len < 65536 THEN [res |-> "Ok", n |-> 3]
    ELSE [res |-> "NoSpace", n |-> 0]

\* ASN1Writer::bytes_to_encode_len
bytes_to_encode_len(len) ==
    IF len < 128 THEN [res |-> "Ok", n |-> 1]
    ELSE IF len < 256 THEN [res |-> "Ok", n |-> 2]
    ELSE IF len < 65536 THEN [res |-> "Ok", n |-> 3]
    ELSE [res |-> "NoSpace", n |-> 0]

\* 256 to the power k
RECURSIVE pow256(_)
pow256(k) == IF k = 0 THEN 1 ELSE 256 * pow256(k - 1)

\* the loop of encode_len: the octets of len, the highest first
RECURSIVE encode_octets(_, _, _, _)
encode_octets(buf, at_offset, len, octet_number) ==
    LET b == put(buf, at_offset, (len \div pow256(octet_number)) % 256)
    IN  IF octet_number = 0 THEN [buf |-> b, at_offset |-> at_offset + 1]
        ELSE encode_octets(b, at_offset + 1, len, octet_number - 1)

\* mutant: the length octets are left unwritten
encode_len_skip_write(buf, at_offset, len) ==
    [buf |-> buf, at_offset |-> at_offset + bytes_to_encode_len(len).n]

\* ASN1Writer::encode_len for a length that bytes_to_encode_len accepts
encode_len(buf, at_offset, len) ==
    LET bytes_of_len == bytes_to_encode_len(len).n
    IN  IF bytes_of_len > 1
        THEN encode_octets(put(buf, at_offset, BitOr(128, bytes_of_len - 1)),
                           at_offset + 1, len, bytes_of_len - 2)
        ELSE encode_octets(buf, at_offset, len, bytes_of_len - 1)

\* ASN1Writer::append_tlv; content stands for the len bytes the closure writes
append_tlv(w, tag, content) ==
    LET len == Len(content)
        n == bytes_to_encode_len(len)
        total_len == 1 + n.n + len
    IN  IF n.res # "Ok" THEN [res |-> n.res, w |-> w]
        ELSE IF w.offset + total_len <= Len(w.buf)
        THEN LET e == encode_len(put(w.buf, w.offset, tag), w.offset + 1, len)
             IN  [res |-> "Ok",
                  w |-> [w EXCEPT !.buf = copy_from_slice(e.buf, e.at_offset, content),
                                  !.offset = e.at_offset + len]]
        ELSE [res |-> "NoSpace", w |-> w]

\* ASN1Writer::write_str
write_str(w, vtype, str) == append_tlv(w, vtype, str)

\* ASN1Writer::add_compound
add_compound(w, val) ==
    IF w.offset + 1 + RESERVE_LEN_BYTES > Len(w.buf) THEN [res |-> "NoSpace", w |-> w]
    ELSE IF w.current_depth >= MaxDepth THEN [res |-> "panic", w |-> w]
    ELSE LET w1 == [w EXCEPT !.buf = put(w.buf, w.offset, val),
                             !.offset = w.offset + 1 + RESERVE_LEN_BYTES,
                             !.depth[w.current_depth + 1] = w.offset + 1 + RESERVE_LEN_BYTES,
                             !.current_depth = w.current_depth + 1]
         IN  [res |-> IF w1.current_depth >= MaxDepth THEN "NoSpace" ELSE "Ok", w |-> w1]

\* ASN1Writer::get_compound_len
get_compound_len(w) == w.offset - w.depth[w.current_depth]

\* ASN1Writer::get_length_encoding_offset
get_length_encoding_offset(w) == w.depth[w.current_depth] - RESERVE_LEN_BYTES

\* mutant: an end_* call with no container open is accepted
end_compound_lenient(w) ==
    IF w.current_depth = 0 THEN [res |-> "Ok", w |-> w]
    ELSE LET seq_len == get_compound_len(w)
             n == bytes_to_encode_len(seq_len)
         IN  IF n.res # "Ok" THEN [res |-> n.res, w |-> w]
             ELSE LET e == encode_len(w.buf, get_length_encoding_offset(w), seq_len)
                      shift_len == w.depth[w.current_depth] - e.at_offset
                      shifted == SubSeq(e.buf, 1, e.at_offset)
                                 \o SubSeq(e.buf, e.at_offset + shift_len + 1,
                                           e.at_offset + shift_len + seq_len)
                                 \o SubSeq(e.buf, e.at_offset + seq_len + 1, Len(e.buf))
                  IN  [res |-> "Ok",
                       w |-> [w EXCEPT !.buf = shifted,
                                       !.current_depth = w.current_depth - 1,
                                       !.offset = w.offset - shift_len]]

\* ASN1Writer::end_compound
end_compound(w) ==
    IF w.current_depth = 0 THEN [res |-> "Invalid", w |-> w]
    ELSE LET seq_len == get_compound_len(w)
             n == bytes_to_encode_len(seq_len)
         IN  IF n.res # "Ok" THEN [res |-> n.res, w |-> w]
             ELSE LET e == encode_len(w.buf, get_length_encoding_offset(w), seq_len)
                      shift_len == w.depth[w.current_depth] - e.at_offset
                      shifted == SubSeq(e.buf, 1, e.at_offset)
                                 \o SubSeq(e.buf, e.at_offset + shift_len + 1,
                                           e.at_offset + shift_len + seq_len)
                                 \o SubSeq(e.buf, e.at_offset + seq_len + 1, Len(e.buf))
                  IN  [res |-> "Ok",
                       w |-> [w EXCEPT !.buf = shifted,
                                       !.current_depth = w.current_depth - 1,
                                       !.offset = w.offset - shift_len]]

\* the strip loop of bitstr: the index (from 0) of the last byte that is not
\* zero, or -1 when the index has gone below 0
RECURSIVE strip_zeroes(_, _)
strip_zeroes(str, last_byte) ==
    IF last_byte < 0 THEN -1
    ELSE IF str[last_byte + 1] = 0 THEN strip_zeroes(str, last_byte - 1)
    ELSE last_byte

\* CertConsumer::bitstr.  s.len() - 1 and last_byte -= 1 go below 0 on an
\* empty or all-zero string: a build with overflow checks aborts there, a
\* build without them wraps to usize::MAX, and the next s[last_byte] aborts;
\* without truncate the wrapped index gives the empty slice s[..0].
bitstr(w, truncate, str, build) ==
    LET last_byte == IF truncate THEN strip_zeroes(str, Len(str) - 1) ELSE Len(str) - 1
    IN  IF last_byte < 0 /\ (truncate \/ build = "debug") THEN [res |-> "panic", w |-> w]
        ELSE LET num_of_zero == IF truncate THEN trailing_zeros(str[last_byte + 1]) ELSE 0
             IN  append_tlv(w, 3, <<num_of_zero>> \o SubSeq(str, 1, last_byte + 1))

\* CertConsumer::bool
bool(w, b) == append_tlv(w, 1, <<IF b THEN 255 ELSE 0>>)

\* the days of year y and of its month m
is_leap(y) == y % 4 = 0 /\ (y % 100 # 0 \/ y % 400 = 0)
days_in_year(y) == IF is_leap(y) THEN 366 ELSE 365
days_in_month(y, m) ==
    IF m = 2 THEN (IF is_leap(y) THEN 29 ELSE 28)
    ELSE IF m \in {4, 6, 9, 11} THEN 30 ELSE 31

\* the year, and the day within it, of the day that is days after 1 January of y
RECURSIVE year_of(_, _)
year_of(days, y) ==
    IF days < days_in_year(y) THEN [y |-> y, days |-> days]
    ELSE year_of(days - days_in_year(y), y + 1)

\* the month, and the day within it, of day days (from 0) of year y
RECURSIVE month_of(_, _, _)
month_of(days, y, m) ==
    IF days < days_in_month(y, m) THEN [m |-> m, d |-> days + 1]
    ELSE month_of(days - days_in_month(y, m), y, m + 1)

\* two decimal digits in ASCII
two_digits(n) == <<48 + ((n \div 10) % 10), 48 + (n % 10)>>

\* format!("{}Z", dt.format("%y%m%d%H%M%S")) for epoch seconds after
\* 2000-01-01 00:00:00 UTC
time_str(epoch) ==
    LET yd == year_of(epoch \div 86400, 2000)
        md == month_of(yd.days, yd.y, 1)
        secs == epoch % 86400
    IN  two_digits(yd.y % 100) \o two_digits(md.m) \o two_digits(md.d)
        \o two_digits(secs \div 3600) \o two_digits((secs % 3600) \div 60)
        \o two_digits(secs % 60) \o <<90>>

\* CertConsumer::utctime
utctime(w, epoch) == write_str(w, 23, time_str(epoch))

\* the byte strings the calls are given
ByteStrs == {<<>>, <<7>>}
\* the bit strings: empty, all zero, with and without trailing zero bytes
BitStrs == {<<>>, <<0>>, <<0, 0>>, <<128, 0>>, <<6, 0>>, <<0, 1>>}
\* context tag numbers
CtxIds == {0, 3}
\* 2000-01-01 00:00:00, 2000-02-29 23:59:59 and 2001-03-01 12:34:56
Epochs == {0, 5183999, 36678896}
Builds == {"debug", "release"}

\* the history of a script: the start_* calls made, the end_* calls that
\* succeeded, and the offsets of the tags of the containers that were opened
\* (the call moved the write offset) and not closed since, the last opened last
StartOps == {"start_seq", "start_set", "start_ctx", "start_compound_ostr"}

EndOps == {"end_seq", "end_set", "end_ctx", "end_compound_ostr"}

starts_after(op) == asn_last.starts + (IF op \in StartOps THEN 1 ELSE 0)

ends_after(op, r) == asn_last.ends + (IF op \in EndOps /\ r.res = "Ok" THEN 1 ELSE 0)

opened_after(op, r) ==
    IF op \in StartOps /\ r.w.offset # asn_w.offset
    THEN Append(asn_last.opened, asn_w.offset)
    ELSE IF op \in EndOps /\ r.res = "Ok"
    THEN SubSeq(asn_last.opened, 1, Len(asn_last.opened) - 1)
    ELSE asn_last.opened

notAsn == <<sessVars, exchVars, certVars, paseVars, rxVars, lifeVars, decVars,
            cryptoVars>>

\* one call of the script, made on both writers; a call that aborts ends the run
AsnCall(op, r, r2) ==
    /\ asn_last.res # "panic"
    /\ asn_last.n < MaxCalls
    /\ asn_w' = r.w
    /\ asn_w2' = r2.w
    /\ asn_last' = [op |-> op, res |-> r.res, res2 |-> r2.res, n |-> asn_last.n + 1,
                    same_buf |-> asn_last.same_buf,
                    starts |-> starts_after(op), ends |-> ends_after(op, r),
                    opened |-> opened_after(op, r)]
    /\ UNCHANGED notAsn

StartSeq == AsnCall("start_seq", add_compound(asn_w, 48), add_compound(asn_w2, 48))
EndSeq == AsnCall("end_seq", end_compound(asn_w), end_compound(asn_w2))
Integer(i) == AsnCall("integer", write_str(asn_w, 2, i), write_str(asn_w2, 2, i))
Utf8str(str) == AsnCall("utf8str", write_str(asn_w, 12, str), write_str(asn_w2, 12, str))
Bitstr(truncate, str, build) ==
    AsnCall("bitstr", bitstr(asn_w, truncate, str, build),
                      bitstr(asn_w2, truncate, str, build))
Ostr(str) == AsnCall("ostr", write_str(asn_w, 4, str), write_str(asn_w2, 4, str))
StartCompoundOstr ==
    AsnCall("start_compound_ostr", add_compound(asn_w, 4), add_compound(asn_w2, 4))
EndCompoundOstr == AsnCall("end_compound_ostr", end_compound(asn_w), end_compound(asn_w2))
Bool(b) == AsnCall("bool", bool(asn_w, b), bool(asn_w2, b))
StartSet == AsnCall("start_set", add_compound(asn_w, 49), add_compound(asn_w2, 49))
EndSet == AsnCall("end_set", end_compound(asn_w), end_compound(asn_w2))
Ctx(id, val) ==
    AsnCall("ctx", write_str(asn_w, BitOr(128, id), val),
                   write_str(asn_w2, BitOr(128, id), val))
StartCtx(val) ==
    AsnCall("start_ctx", add_compound(asn_w, BitOr(160, val)),
                         add_compound(asn_w2, BitOr(160, val)))
EndCtx == AsnCall("end_ctx", end_compound(asn_w), end_compound(asn_w2))
Oid(oid) == AsnCall("oid", write_str(asn_w, 6, oid), write_str(asn_w2, 6, oid))
Utctime(epoch) == AsnCall("utctime", utctime(asn_w, epoch), utctime(asn_w2, epoch))

\* the two writers are new, each on a buffer of AsnBufLen bytes that the
\* caller supplies with any contents
InitAsn ==
    /\ SessIdle
    /\ ExchIdle
    /\ CertIdle
    /\ PaseIdle
    /\ RxIdle
    /\ LifeIdle
    /\ DecIdle
    /\ CryptoIdle
    /\ \E fill \in {0, 255} : asn_w = ASN1Writer_new(fill)
    /\ \E fill \in {0, 255} : asn_w2 = ASN1Writer_new(fill)
    /\ asn_last = [op |-> "new", res |-> "Ok", res2 |-> "Ok", n |-> 0,
                   same_buf |-> asn_w.buf = asn_w2.buf,
                   starts |-> 0, ends |-> 0, opened |-> <<>>]

NextAsn ==
    \/ StartSeq
    \/ EndSeq
    \/ \E i \in ByteStrs : Integer(i)
    \/ \E str \in ByteStrs : Utf8str(str)
    \/ \E truncate \in BOOLEAN, str \in BitStrs, build \in Builds :
          Bitstr(truncate, str, build)
    \/ \E str \in ByteStrs : Ostr(str)
    \/ StartCompoundOstr
    \/ EndCompoundOstr
    \/ \E b \in BOOLEAN : Bool(b)
    \/ StartSet
    \/ EndSet
    \/ \E id \in CtxIds, val \in ByteStrs : Ctx(id, val)
    \/ \E val \in CtxIds : StartCtx(val)
    \/ EndCtx
    \/ \E oid \in ByteStrs : Oid(oid)
    \/ \E epoch \in Epochs : Utctime(epoch)

SpecAsn == InitAsn /\ [][NextAsn]_vars

----------------------------------------------------------------------------
(* Containers with long bodies.  One writer is given a buffer that holds a  *)
(* body of 256 bytes or, for the two longest strings, of 65536 bytes; the   *)
(* scripts open one or two containers, write one octet string into the      *)
(* innermost and close the containers again.                                *)

\* the sizes of the buffer
LenBufSmall == 300
LenBufBig == 65550
\* the containers a script opens
MaxNest == 2

\* ASN1Writer::new on a buffer of size bytes that all hold fill
ASN1Writer_on(size, fill) ==
    [buf |-> [i \in 1..size |-> fill],
     offset |-> 0,
     depth |-> [i \in 1..MaxDepth |-> 0],
     current_depth |-> 0]

\* the octet string of n bytes 1, 2, 3, ...
long_str(n) == [i \in 1..n |-> i % 256]

\* the lengths of the strings: with the tag and the length prefix of the
\* string they give bodies of 2, 127, 128, 255, 256, 65535 and 65536 bytes
SmallLens == {0, 125, 126, 252, 253}
BigLens == {65531, 65532}

\* one call of the script on the first writer
LenCall(op, r) ==
    /\ asn_last.res # "panic"
    /\ asn_w' = r.w
    /\ asn_last' = [op |-> op, res |-> r.res, res2 |-> r.res, n |-> asn_last.n + 1,
                    same_buf |-> asn_last.same_buf,
                    starts |-> starts_after(op), ends |-> ends_after(op, r),
                    opened |-> opened_after(op, r)]
    /\ UNCHANGED <<notAsn, asn_w2>>

LenStartSeq ==
    /\ asn_last.op \in {"new", "start_seq", "start_set"}
    /\ asn_w.current_depth < MaxNest
    /\ \E r \in {add_compound(asn_w, 48)} : LenCall("start_seq", r)

LenStartSet ==
    /\ asn_last.op \in {"new", "start_seq", "start_set"}
    /\ asn_w.current_depth < MaxNest
    /\ \E r \in {add_compound(asn_w, 49)} : LenCall("start_set", r)

LenOstr(n) ==
    /\ asn_last.op \in {"start_seq", "start_set"}
    /\ n \in BigLens <=> Len(asn_w.buf) = LenBufBig
    /\ \E r \in {write_str(asn_w, 4, long_str(n))} : LenCall("ostr", r)

LenEndSeq ==
    /\ asn_last.op \in {"ostr", "end_seq", "end_set"}
    /\ asn_last.res = "Ok"
    /\ \E r \in {end_compound(asn_w)} : LenCall("end_seq", r)

LenEndSet ==
    /\ asn_last.op \in {"ostr", "end_seq", "end_set"}
    /\ asn_last.res = "Ok"
    /\ \E r \in {end_compound(asn_w)} : LenCall("end_set", r)

InitLen ==
    /\ SessIdle
    /\ ExchIdle
    /\ CertIdle
    /\ PaseIdle
    /\ RxIdle
    /\ LifeIdle
    /\ DecIdle
    /\ CryptoIdle
    /\ \E size \in {LenBufSmall, LenBufBig} : asn_w = ASN1Writer_on(size, 0)
    /\ asn_w2 = ASN1Writer_new(0)
    /\ asn_last = [op |-> "new", res |-> "Ok", res2 |-> "Ok", n |-> 0, same_buf |-> TRUE,
                   starts |-> 0, ends |-> 0, opened |-> <<>>]

NextLen ==
    \/ LenStartSeq
    \/ LenStartSet
    \/ \E n \in SmallLens \cup BigLens : LenOstr(n)
    \/ LenEndSeq
    \/ LenEndSet

SpecLen == InitLen /\ [][NextLen]_vars

----------------------------------------------------------------------------
(* Properties of the ASN.1 writer (SpecAsn) *)

\* the bytes bitstr has to emit for str: the count of unused bits, then str
\* without its trailing zero bytes
RECURSIVE strip_trailing_zero_bytes(_)
strip_trailing_zero_bytes(str) ==
    IF str # <<>> /\ str[Len(str)] = 0
    THEN strip_trailing_zero_bytes(SubSeq(str, 1, Len(str) - 1))
    ELSE str

bitstr_content(str) ==
    LET t == strip_trailing_zero_bytes(str)
    IN  <<trailing_zeros(t[Len(t)])>> \o t

(* C17: bitstr with truncate never faults, whatever the byte string, an     *)
(* all-zero one included: it returns Ok or an error, and on Ok it has       *)
(* appended a BIT STRING whose content is the count byte followed by the    *)
(* string without its trailing zero bytes.                                  *)
C17_BitstrTruncateNoFault ==
    \A str \in BitStrs, build \in Builds :
        LET r == bitstr(asn_w, TRUE, str, build)
        IN  /\ r.res # "panic"
            /\ r.res = "Ok" =>
                  as_slice(r.w) = as_slice(asn_w)
                      \o <<3, Len(bitstr_content(str))>> \o bitstr_content(str)

(* C19: the writer is deterministic.  After any script of calls made on two *)
(* writers whose buffers have the same size, the last call returned the     *)
(* same result on both and the two outputs are byte-identical.              *)
C19_Deterministic ==
    /\ asn_last.res = asn_last.res2
    /\ as_slice(asn_w) = as_slice(asn_w2)

(* C19, amended: the last call returned the same result on both writers,    *)
(* both have written the same number of bytes and have the same containers  *)
(* open, and the two outputs are byte-identical when the two buffers had    *)
(* the same contents to start with or no container is left open.            *)
C19_DeterministicWhenClosed ==
    /\ asn_last.res = asn_last.res2
    /\ asn_w.offset = asn_w2.offset
    /\ asn_w.depth = asn_w2.depth
    /\ asn_w.current_depth = asn_w2.current_depth
    /\ (asn_last.same_buf \/ asn_w.current_depth = 0) =>
          as_slice(asn_w) = as_slice(asn_w2)

\* a container was opened, filled and closed on two buffers of different contents
C19_Witness ==
    /\ ~asn_last.same_buf
    /\ asn_last.op = "end_seq"
    /\ asn_last.res = "Ok"
    /\ asn_w.current_depth = 0
    /\ asn_w.offset > 2

\* the minimal DER encoding of the length len
der_length(len) ==
    IF len < 128 THEN <<len>>
    ELSE IF len < 256 THEN <<129, len>>
    ELSE <<130, len \div 256, len % 256>>

\* the body of the innermost open container of w
open_body(w) == SubSeq(w.buf, w.depth[w.current_depth] + 1, w.offset)

\* a step in which an end_* call is made while a container is open
EndStep ==
    /\ asn_last'.op \in {"end_seq", "end_set", "end_ctx", "end_compound_ostr"}
    /\ asn_last'.n = asn_last.n + 1
    /\ asn_w.current_depth > 0

StartStep ==
    /\ asn_last'.op \in {"start_seq", "start_set", "start_ctx", "start_compound_ostr"}
    /\ asn_last'.n = asn_last.n + 1
    /\ asn_w.offset + 1 + RESERVE_LEN_BYTES <= Len(asn_w.buf)

(* C23: the depth stack holds MaxDepth containers.  A start_* call made     *)
(* with room in the buffer succeeds while fewer than MaxDepth containers    *)
(* are open, so that MaxDepth containers can be open at once, and returns   *)
(* NoSpace when MaxDepth containers are open already.                       *)
C23_DepthLimit ==
    [][StartStep =>
        IF asn_w.current_depth < MaxDepth
        THEN asn_last'.res = "Ok" /\ asn_w'.current_depth = asn_w.current_depth + 1
        ELSE asn_last'.res = "NoSpace"]_vars

\* a step in which an end_* call is made
EndCall == asn_last'.op \in EndOps /\ asn_last'.n = asn_last.n + 1

(* C24: an end_* call made when no container is open returns Invalid and    *)
(* leaves the writer as it was.  An end_* call succeeds only when more      *)
(* start_* calls than successful end_* calls were made before it, and it    *)
(* closes the container that was opened last: the length is written right   *)
(* after that container's tag, and the containers opened before it stay     *)
(* open.                                                                    *)
C24_EndNeedsOpenContainer ==
    [][EndCall =>
        /\ asn_w.current_depth = 0 => asn_last'.res = "Invalid" /\ asn_w' = asn_w
        /\ asn_last'.res = "Ok" =>
              /\ asn_last.starts > asn_last.ends
              /\ asn_last.opened # <<>>
              /\ get_length_encoding_offset(asn_w)
                    = asn_last.opened[Len(asn_last.opened)] + 1
              /\ asn_w'.current_depth = Len(asn_last'.opened)
              /\ \A k \in 1..asn_w'.current_depth :
                    asn_w'.depth[k] = asn_last'.opened[k] + 1 + RESERVE_LEN_BYTES]_vars

\* an end_* call was refused for want of an open container after a
\* container had been opened and closed
C24_Witness ==
    /\ asn_last.op \in EndOps
    /\ asn_last.res = "Invalid"
    /\ asn_last.starts = 1
    /\ asn_last.ends = 1

\* the tags that decode_cert reads, in the order of the walk: serial,
\* sig-algo, issuer, not-before, not-after, subject, pub-key-algo,
\* ec-curve-id, ec-pub-key, extensions
in_order(tlv, n) == Len(tlv) >= n /\ \A i \in 1..n : tlv[i].tag = i

\* the first position at which the struct departs from the fixed order of
\* its first n elements
first_defect(tlv, n) ==
    CHOOSE i \in 1..n : (i > Len(tlv) \/ tlv[i].tag # i) /\ in_order(tlv, i - 1)

C26_ResponseCarriesNewSessId ==
    (pase_last.op = "pbkdfparamrequest" /\ pase_last.wrote = "PBKDFParamResponse") =>
        /\ pase_last.sessid # 0
        /\ pase_last.sessid = pase_session.child_local_sess_id

(* C27: a PASEPake1 is accepted only while the handshake awaits it.  After  *)
(* a PASEPake1 was answered with a PASEPake2 on an exchange, no second      *)
(* PASEPake2 is written on it unless a new PBKDFParamRequest has succeeded   *)
(* there in between.                                                        *)
C27_Pake1AcceptedOnce ==
    \A e \in PaseExchIds : pake2s[e] <= 1

\* the exchanges of the table that have this id
with_id(exs, id) == {k \in 1..Len(exs) : exs[k].id = id}

\* recv takes a message of the initiator of exchange pkt.exch_id, on a live
\* session, while a live session other than the message's holds an exchange of
\* that id
RecvOnOtherSession(pkt) ==
    /\ Recv(pkt, "ok")
    /\ pkt.initiator
    /\ sess_mgr_find(sess_tbl, pkt) # 0
    /\ contains_key(exchanges, pkt.exch_id)
    /\ LET e == map_get(exchanges, pkt.exch_id)
           B == sess_tbl[sess_mgr_find(sess_tbl, pkt)]
       IN  /\ owner_of(e) # {}
           /\ e.sess_id # B.local_sess_id \/ e.owner # B.peer_addr

(* C28: exchanges are keyed by exchange id within a session.  When a        *)
(* session holds an exchange of some id and a message of the initiator with *)
(* the same exchange id arrives on another session, recv succeeds and makes *)
(* an exchange of that id bound to the session of the message, and the      *)
(* exchange of the first session stays in the table.                        *)
C28_ExchangePerSession ==
    [][\A pkt \in EvictPackets :
          RecvOnOtherSession(pkt) =>
              LET B == sess_tbl[sess_mgr_find(sess_tbl, pkt)] IN
              /\ ex_last'.res = "Ok"
              /\ \E k \in with_id(exchanges', pkt.exch_id) :
                    /\ exchanges'[k].sess_id = B.local_sess_id
                    /\ exchanges'[k].owner = B.peer_addr
              /\ \E k \in with_id(exchanges', pkt.exch_id) :
                    exchanges'[k] = map_get(exchanges, pkt.exch_id)]_vars

\* the plaintext sessions of the table that a packet of this peer on session
\* id 0 belongs to
plain_sessions_of(tbl, peer_addr) ==
    {i \in 1..Len(tbl) : /\ tbl[i].local_sess_id = 0
                         /\ tbl[i].mode = "PlainText"
                         /\ tbl[i].peer_addr = peer_addr}

\* recv has found or created the plaintext session of a packet on session id
\* 0, and has then dropped the packet with an error
RecvDropsOnPlainSession(pkt) ==
    /\ Recv(pkt, "ok")
    /\ pkt.sess_id = 0
    /\ ex_last'.res # "Ok"
    /\ \/ sess_mgr_recv(sess_tbl, pkt).res = "Ok"
       \/ /\ ex_last'.ev = "Ok"
          /\ Len(sess_tbl') = Len(sess_tbl)

(* C29: when recv drops a packet with an error after it has found or        *)
(* created the plaintext session (id 0) of the packet, that session is      *)
(* released: it is not in the session table when recv returns the error.    *)
C29_DroppedPacketReleasesSession ==
    [][\A pkt \in EvictPackets :
          RecvDropsOnPlainSession(pkt) =>
              plain_sessions_of(sess_tbl', pkt.peer_addr) = {}]_vars

(* C30: SessionMgr::get creates a session only for session id 0 without the *)
(* encrypted flag.  A get with a session id other than 0, or with the       *)
(* encrypted flag, that matches no live session returns None and leaves the *)
(* session table and the id allocator unchanged.                            *)
C30_GetCreatesOnlyOnIdZero ==
    [][\A id \in SessIdInputs, p \in Peers, e \in BOOLEAN :
          Get(id, p, e) =>
              /\ (SessionMgr_get(sessions, id, p, e) = 0 /\ (id # 0 \/ e)) =>
                    /\ sm_last'.res = "None"
                    /\ sessions' = sessions
                    /\ next_sess_id' = next_sess_id
              /\ sessions' # sessions =>
                    /\ id = 0
                    /\ ~e
                    /\ SessionMgr_get(sessions, id, p, e) = 0]_vars

\* a get with a session id other than 0 has matched none of the live
\* sessions of a table that has room
C30_Witness ==
    /\ sm_last.op = "get"
    /\ sm_last.res = "None"
    /\ sm_last.id # 0
    /\ sessions # <<>>
    /\ Len(sessions) < MaxSessions

(* C31: the scalar that get_XY draws lies in [1, order): it is not 0 and it *)
(* is less than the order of the curve.                                     *)
C31_ScalarInRange ==
    cr_last.op = "get_XY" => crypto.xy >= 1 /\ crypto.xy < EcOrder

\* a step in which get_ZV_as_verifier or get_ZV_as_prover is called
GetZVStep == cr_last'.op \in {"get_ZV_as_verifier", "get_ZV_as_prover"}

(* C32: M and N are fixed.  After a call of get_ZV_as_verifier or           *)
(* get_ZV_as_prover the instance's M and N are the Matter constants, and a  *)
(* call that repeats the previous one with the same inputs returns the same *)
(* Z and V.                                                                 *)
C32_MNFixed ==
    [][GetZVStep =>
          /\ crypto'.M = MatterM
          /\ crypto'.N = MatterN
          /\ (cr_last.op = cr_last'.op /\ cr_last.in = cr_last'.in) =>
                cr_last'.Z = cr_last.Z /\ cr_last'.V = cr_last.V]_vars

(* C33: get_L returns w1*P, where w1 is the second half of w0w1s reduced    *)
(* modulo the order of the curve, and leaves the stored w0 as it was.       *)
C33_GetLIsW1TimesP ==
    [][cr_last'.op = "get_L" =>
          LET w0w1s == cr_last'.in
              w1s == SubSeq(w0w1s, WSize + 1, 2 * WSize)
          IN  /\ cr_last'.L = mul_generator(checked_rem(from_slice(w1s), EcOrder))
              /\ crypto'.w0 = crypto.w0]_vars

\* the live sessions that have this local session id
sessions_with_id(tbl, sess_id) == {i \in 1..Len(tbl) : tbl[i].local_sess_id = sess_id}

(* C34: the sess_id of every live exchange identifies exactly one live      *)
(* session, and the session that ExchangeMgr::send fetches for the exchange *)
(* is the one on which the exchange was created: it has the peer of that    *)
(* session.                                                                 *)
C34_ExchangeSessionUnique ==
    \A k \in 1..Len(exchanges) :
        /\ Cardinality(sessions_with_id(sess_tbl, exchanges[k].sess_id)) = 1
        /\ sess_tbl[sess_mgr_get_with_id(sess_tbl, exchanges[k].sess_id)].peer_addr
              = exchanges[k].owner

\* the keys of the exchange table and the session each exchange is bound to
bindings(exs) == [k \in 1..Len(exs) |-> <<exs[k].id, exs[k].sess_id>>]

\* a step of recv, add_session or evict_session in which evict_session has
\* returned an error
EvictFails ==
    /\ ex_last'.op \in {"recv", "add_session", "evict_session"}
    /\ ex_last'.ev \notin {"none", "Ok"}

(* C35: when evict_session returns an error, the session at the index and   *)
(* all the exchanges are still in their tables, and the recv or add_session *)
(* that called it returns that error and admits no session.                 *)
C35_EvictAllOrNothing ==
    [][EvictFails =>
          /\ ex_last'.res = ex_last'.ev
          /\ sess_tbl' = sess_tbl
          /\ bindings(exchanges') = bindings(exchanges)
          /\ ex_last'.n_removed = 0
          /\ ~ex_last'.created]_vars

\* the eviction that a recv or an add_session has called on a full table has
\* failed to send the CloseSession report on an exchange of the session
C35_Witness ==
    /\ ex_last.op \in {"recv", "add_session"}
    /\ ex_last.ev = "Invalid"
    /\ ex_last.res = "Invalid"
    /\ Len(sess_tbl) = MaxSess
    /\ exchanges # <<>>

(* C36: every session whose mode is Encrypted, in the table or just         *)
(* returned by Session::clone, has a local session id other than 0.         *)
C36_EncryptedHasLocalId ==
    /\ \A i \in 1..Len(sessions) :
          sessions[i].mode = "Encrypted" => sessions[i].local_sess_id # 0
    /\ cloned # NoSession => cloned.local_sess_id # 0

(* C37: SessionMgr::add returns the index of the session it has just        *)
(* created, the one that holds the child_local_sess_id it has allocated.    *)
C37_AddReturnsCreated ==
    (sm_last.op = "add" /\ sm_last.res = "Ok") =>
        /\ sm_last.idx = Len(sessions)
        /\ sessions[sm_last.idx].child_local_sess_id = sm_last.id

(* C38: Exchange::release on an exchange whose user count is 0 does not     *)
(* abort the program and does not turn the count into 255: the exchange is  *)
(* still in the table with no users.                                        *)
C38_ReleaseNeverWraps ==
    [][\A id \in ExchIds :
          (/\ ~panicked
           /\ contains_key(exchanges, id)
           /\ map_get(exchanges, id).user_cnt = 0
           /\ ex_last'.op = "release"
           /\ life'[id] # life[id] \/ panicked')
             => /\ ~panicked'
                /\ contains_key(exchanges', id)
                /\ map_get(exchanges', id).user_cnt # U8Max]_vars

\* a step in which a call on the writer returns an error
ErrCall ==
    /\ asn_last'.n = asn_last.n + 1
    /\ asn_last'.res \notin {"Ok", "panic"}

(* C39: an ASN1Writer operation that returns an error leaves the writer's   *)
(* offset, depth stack and current depth as they were before the call.      *)
C39_ErrorLeavesWriter ==
    [][ErrCall =>
        /\ asn_w'.offset = asn_w.offset
        /\ asn_w'.depth = asn_w.depth
        /\ asn_w'.current_depth = asn_w.current_depth]_vars

\* the loop of SessionMgr::get_next_sess_id is followed for at most MaxIters
\* iterations
MaxIters == 2 * MaxSessions + 2

\* the number of iterations the loop of SessionMgr::get_next_sess_id makes
\* from allocator value n over table ss, k counting the one under way
RECURSIVE get_next_sess_id_iters(_, _, _)
get_next_sess_id_iters(n, ss, k) ==
    IF k > MaxIters \/ ~id_in_use(ss, n) THEN k
    ELSE get_next_sess_id_iters(incr_sess_id(n), ss, k + 1)

\* the ids other than 0 that the sessions of the table hold
ids_held(ss) ==
    ({ss[i].local_sess_id : i \in 1..Len(ss)}
        \cup {ss[i].child_local_sess_id : i \in 1..Len(ss)}) \ {0}

(* C40: the loop of get_next_sess_id terminates.  The table holds at most   *)
(* two ids per session, so one of the ids 1..2*len+1 is free, and from any  *)
(* allocator value the loop breaks after at most one iteration per id held  *)
(* and one more.                                                            *)
C40_AllocTerminates ==
    /\ Len(sessions) <= MaxSessions
    /\ \E id \in 1..(2 * Len(sessions) + 1) : ~id_in_use(sessions, id)
    /\ get_next_sess_id_iters(next_sess_id, sessions, 1)
          <= Cardinality(ids_held(sessions)) + 1

\* the table is full, the allocator is back at an id that a session holds, and
\* the allocation that has just returned went round the 16-bit wrap
C40_Witness ==
    /\ Len(sessions) = MaxSessions
    /\ sm_last.op \in {"get_next_sess_id", "add"}
    /\ sm_last.id = U16Max
    /\ get_next_sess_id_iters(next_sess_id, sessions, 1) >= 2

====
